---- MODULE Spec2Model ----
(***************************************************************************)
(* A model of redisgraph-rs: the result-set decoder (src/result_set.rs),   *)
(* the identifier caches and the cache-miss retry of Graph::get_result_set *)
(* (src/graph.rs), the row/table projections (src/assignments.rs) and the  *)
(* Path/RawPath conversions.                                               *)
(***************************************************************************)
EXTENDS Integers, Sequences, FiniteSets, TLC

(***************************************************************************)
(* redis::Value, the generic value tree delivered by the transport.        *)
(* A byte string (Value::Data, RedisString) is a sequence of byte values.  *)
(***************************************************************************)
ValueNil == [t |-> "Nil", v |-> 0]

ValueInt(n) == [t |-> "Int", v |-> n]

ValueData(bytes) == [t |-> "Data", v |-> bytes]

ValueBulk(values) == [t |-> "Bulk", v |-> values]

(***************************************************************************)
(* RedisGraphResult<T>: Ok(value) or Err(error kind).  "Panic" is not a    *)
(* RedisGraphError: it stands for a Rust panic (index out of bounds,       *)
(* arithmetic overflow, unwrap of None), which unwinds through every `?`   *)
(* exactly as the first error met in evaluation order does.                *)
(***************************************************************************)
Ok(val) == [ok |-> TRUE, val |-> val]

Err(e) == [ok |-> FALSE, err |-> e]

ServerTypeError == "ServerTypeError"

ClientTypeError == "ClientTypeError"

InvalidUtf8 == "InvalidUtf8"

LabelNotFound == "LabelNotFound"

RelationshipTypeNotFound == "RelationshipTypeNotFound"

PropertyKeyNotFound == "PropertyKeyNotFound"

TransportError == "TransportError"

Panic == "Panic"

(***************************************************************************)
(* Scalar, Node, Edge, RawPath, Column, ResultSet.                         *)
(***************************************************************************)
ScalarNil == [s |-> "Nil", v |-> 0]

ScalarBoolean(b) == [s |-> "Boolean", v |-> b]

ScalarInteger(i) == [s |-> "Integer", v |-> i]

ScalarDouble(d) == [s |-> "Double", v |-> d]

ScalarString(bytes) == [s |-> "String", v |-> bytes]

ScalarArray(elems) == [s |-> "Array", v |-> elems]

ScalarEdge(e) == [s |-> "Edge", v |-> e]

ScalarNode(n) == [s |-> "Node", v |-> n]

ScalarPath(p) == [s |-> "Path", v |-> p]

EmptyMap == [k \in {} |-> ScalarNil]

Node(labels_, properties) == [labels |-> labels_, properties |-> properties]

Edge(type_name, properties) == [type_name |-> type_name, properties |-> properties]

RawPath(nodes, edges) == [nodes |-> nodes, edges |-> edges]

Column(kind, cells) == [c |-> kind, cells |-> cells]

ResultSet(columns, statistics) == [columns |-> columns, statistics |-> statistics]

\* Take for Value: mem::replace(self, Nil) hands out the old value and leaves
\* Nil in its place; Value_take_left is what the place holds afterwards.
Value_take_left(value) == ValueNil

\* VecGet with the id taken as a 1-based position.
VecGet_OneBased(list, id) ==
    IF id >= 1 /\ id <= Len(list) THEN Ok(list[id]) ELSE Err("None")

\* Vec::get(id as usize): a negative i64 casts to a usize of at least 2^63,
\* which is past the end of every Vec, so it is a miss like any id >= len.
VecGet(list, id) ==
    IF id >= 0 /\ id < Len(list) THEN Ok(list[id + 1]) ELSE Err("None")

(***************************************************************************)
(* str::from_utf8: the well-formed byte sequences of UTF-8.                *)
(***************************************************************************)
IsCont(b) == b >= 128 /\ b <= 191

RECURSIVE IsUtf8(_)
IsUtf8(bytes) ==
    IF Len(bytes) = 0 THEN TRUE
    ELSE LET b == bytes[1]
             n == Len(bytes)
         IN  IF b < 128 THEN IsUtf8(Tail(bytes))
             ELSE IF b >= 194 /\ b <= 223
             THEN n >= 2 /\ IsCont(bytes[2]) /\ IsUtf8(SubSeq(bytes, 3, n))
             ELSE IF b >= 224 /\ b <= 239
             THEN /\ n >= 3
                  /\ IsCont(bytes[2])
                  /\ IsCont(bytes[3])
                  /\ (b = 224 => bytes[2] >= 160)
                  /\ (b = 237 => bytes[2] <= 159)
                  /\ IsUtf8(SubSeq(bytes, 4, n))
             ELSE IF b >= 240 /\ b <= 244
             THEN /\ n >= 4
                  /\ IsCont(bytes[2])
                  /\ IsCont(bytes[3])
                  /\ IsCont(bytes[4])
                  /\ (b = 240 => bytes[2] >= 144)
                  /\ (b = 244 => bytes[2] <= 143)
                  /\ IsUtf8(SubSeq(bytes, 5, n))
             ELSE FALSE

(***************************************************************************)
(* str::parse::<f64> on the decimal literals [+-]digits[.digits]; the value *)
(* is kept exactly as sign, digits and number of fraction digits, with the *)
(* fraction's trailing zeros dropped (1.50 and 1.5 are one value).  Every  *)
(* other text (the exponent, inf and nan forms aside, which the bounded    *)
(* alphabet leaves out) is a parse error.                                  *)
(***************************************************************************)
IsDigit(b) == b >= 48 /\ b <= 57

RECURSIVE DigitsValue(_, _)
DigitsValue(bytes, acc) ==
    IF Len(bytes) = 0 THEN acc
    ELSE DigitsValue(Tail(bytes), acc * 10 + (bytes[1] - 48))

RECURSIVE Normalize(_, _)
Normalize(mant, scale) ==
    IF mant = 0 THEN <<0, 0>>
    ELSE IF scale > 0 /\ mant % 10 = 0 THEN Normalize(mant \div 10, scale - 1)
    ELSE <<mant, scale>>

ParseF64(bytes) ==
    LET signed == Len(bytes) > 0 /\ bytes[1] \in {43, 45}
        neg == Len(bytes) > 0 /\ bytes[1] = 45
        body == IF signed THEN Tail(bytes) ELSE bytes
        dots == {i \in 1..Len(body) : body[i] = 46}
        digs == SelectSeq(body, IsDigit)
        wellFormed == /\ Cardinality(dots) <= 1
                      /\ Len(digs) >= 1
                      /\ Len(digs) + Cardinality(dots) = Len(body)
        scale == IF dots = {} THEN 0 ELSE Len(body) - (CHOOSE i \in dots : TRUE)
        norm == Normalize(DigitsValue(digs, 0), scale)
    IN  IF wellFormed
        THEN Ok([neg |-> neg /\ norm[1] # 0, mant |-> norm[1], scale |-> norm[2]])
        ELSE Err("ParseFloatError")

\* B_true spelled "True".
B_true_Capitalised == <<84, 114, 117, 101>>

B_true == <<116, 114, 117, 101>>

B_false == <<102, 97, 108, 115, 101>>

(***************************************************************************)
(* The decoders of src/result_set.rs.  g is the Graph the decoder reads:   *)
(* [labels, relationship_types, property_keys].                            *)
(***************************************************************************)
\* The `?` operator and its like: go on with the value, or return the error.
\* The result is bound to r so that it is computed once.
AndThen(result, Continue(_)) ==
    CHOOSE out \in {IF r.ok THEN Continue(r.val) ELSE r : r \in {result}} : TRUE

RECURSIVE Scalar_from_redis_value_with_graph(_, _)
RECURSIVE Scalar_array_elements(_, _, _)
RECURSIVE Node_from_redis_value_with_graph(_, _)
RECURSIVE Edge_from_redis_value_with_graph(_, _)
RECURSIVE RawPath_from_redis_value_with_graph(_, _)
RECURSIVE parse_properties_entries(_, _, _)

\* Node_labels reporting a label id that the cache does not hold as a server
\* type error.
RECURSIVE Node_labels_MissIsTypeError(_, _, _)
Node_labels_MissIsTypeError(label_ids, g, acc) ==
    IF Len(label_ids) = 0 THEN Ok(acc)
    ELSE IF label_ids[1].t # "Int" THEN Err(ServerTypeError)
    ELSE IF ~VecGet(g.labels, label_ids[1].v).ok THEN Err(ServerTypeError)
    ELSE Node_labels_MissIsTypeError(Tail(label_ids), g,
                                     Append(acc, VecGet(g.labels, label_ids[1].v).val))

\* The label ids of a node, mapped through graph.labels() and collected.
RECURSIVE Node_labels(_, _, _)
Node_labels(label_ids, g, acc) ==
    IF Len(label_ids) = 0 THEN Ok(acc)
    ELSE IF label_ids[1].t # "Int" THEN Err(ServerTypeError)
    ELSE IF ~VecGet(g.labels, label_ids[1].v).ok THEN Err(LabelNotFound)
    ELSE Node_labels(Tail(label_ids), g,
                     Append(acc, VecGet(g.labels, label_ids[1].v).val))

parse_properties_entries(properties, g, acc) ==
    IF Len(properties) = 0 THEN Ok(acc)
    ELSE LET property == properties[1]
         IN  IF property.t # "Bulk" THEN Err(ServerTypeError)
             ELSE IF Len(property.v) # 3 THEN Err(ServerTypeError)
             ELSE LET property_key_id == property.v[1]
                      property_type == property.v[2]
                      property_value == property.v[3]
                  IN  IF property_key_id.t # "Int" THEN Err(ServerTypeError)
                      ELSE IF ~VecGet(g.property_keys, property_key_id.v).ok
                      THEN Err(PropertyKeyNotFound)
                      ELSE AndThen(
                             Scalar_from_redis_value_with_graph(
                                 ValueBulk(<<property_type, property_value>>), g),
                             LAMBDA val :
                                 parse_properties_entries(
                                     Tail(properties), g,
                                     (VecGet(g.property_keys, property_key_id.v).val :> val)
                                         @@ acc))

parse_properties(g, properties) ==
    IF properties.t # "Bulk" THEN Err(ServerTypeError)
    ELSE parse_properties_entries(properties.v, g, EmptyMap)

Node_from_redis_value_with_graph(value, g) ==
    IF value.t # "Bulk" THEN Err(ServerTypeError)
    ELSE IF Len(value.v) # 3 THEN Err(ServerTypeError)
    ELSE LET label_ids == value.v[2]
             properties == value.v[3]
         IN  IF label_ids.t # "Bulk" THEN Err(ServerTypeError)
             ELSE AndThen(Node_labels(label_ids.v, g, <<>>),
                          LAMBDA labels_ :
                              AndThen(parse_properties(g, properties),
                                      LAMBDA props : Ok(Node(labels_, props))))

Edge_from_redis_value_with_graph(value, g) ==
    IF value.t # "Bulk" THEN Err(ServerTypeError)
    ELSE IF Len(value.v) # 5 THEN Err(ServerTypeError)
    ELSE LET type_id == value.v[2]
             properties == value.v[5]
         IN  IF type_id.t # "Int" THEN Err(ServerTypeError)
             ELSE IF ~VecGet(g.relationship_types, type_id.v).ok
             THEN Err(RelationshipTypeNotFound)
             ELSE AndThen(parse_properties(g, properties),
                          LAMBDA props :
                              Ok(Edge(VecGet(g.relationship_types, type_id.v).val, props)))

\* ScalarType_from_i64 with the tags of Edge and Node exchanged.
ScalarType_from_i64_NodeBeforeEdge(n) ==
    CASE n = 0 -> "Unknown"
      [] n = 1 -> "Nil"
      [] n = 2 -> "String"
      [] n = 3 -> "Integer"
      [] n = 4 -> "Boolean"
      [] n = 5 -> "Double"
      [] n = 6 -> "Array"
      [] n = 7 -> "Node"
      [] n = 8 -> "Edge"
      [] n = 9 -> "Path"
      [] OTHER -> "None"

\* ScalarType::from_i64 (num_derive::FromPrimitive): the variant with the
\* discriminant n, "None" for an n that is no discriminant.
ScalarType_from_i64(n) ==
    CASE n = 0 -> "Unknown"
      [] n = 1 -> "Nil"
      [] n = 2 -> "String"
      [] n = 3 -> "Integer"
      [] n = 4 -> "Boolean"
      [] n = 5 -> "Double"
      [] n = 6 -> "Array"
      [] n = 7 -> "Edge"
      [] n = 8 -> "Node"
      [] n = 9 -> "Path"
      [] OTHER -> "None"

\* The elements of an array scalar, decoded in order up to the first error.
Scalar_array_elements(elements, g, acc) ==
    IF Len(elements) = 0 THEN Ok(acc)
    ELSE AndThen(Scalar_from_redis_value_with_graph(elements[1], g),
                 LAMBDA val : Scalar_array_elements(Tail(elements), g, Append(acc, val)))

Scalar_from_redis_value_with_graph(value, g) ==
    IF value.t # "Bulk" THEN Err(ServerTypeError)
    ELSE IF Len(value.v) # 2 THEN Err(ServerTypeError)
    ELSE LET scalar_type == value.v[1]
             scalar_value == value.v[2]
         IN  IF scalar_type.t # "Int" THEN Err(ServerTypeError)
             ELSE CASE ScalarType_from_i64(scalar_type.v) = "Unknown" -> Err(ServerTypeError)
                    [] ScalarType_from_i64(scalar_type.v) = "Nil" -> Ok(ScalarNil)
                    [] ScalarType_from_i64(scalar_type.v) = "String" ->
                         IF scalar_value.t = "Data"
                         THEN Ok(ScalarString(scalar_value.v))
                         ELSE Err(ServerTypeError)
                    [] ScalarType_from_i64(scalar_type.v) = "Integer" ->
                         IF scalar_value.t = "Int"
                         THEN Ok(ScalarInteger(scalar_value.v))
                         ELSE Err(ServerTypeError)
                    [] ScalarType_from_i64(scalar_type.v) = "Boolean" ->
                         IF scalar_value.t # "Data" THEN Err(ServerTypeError)
                         ELSE IF scalar_value.v = B_true THEN Ok(ScalarBoolean(TRUE))
                         ELSE IF scalar_value.v = B_false THEN Ok(ScalarBoolean(FALSE))
                         ELSE Err(ServerTypeError)
                    [] ScalarType_from_i64(scalar_type.v) = "Double" ->
                         IF scalar_value.t # "Data" THEN Err(ServerTypeError)
                         ELSE IF ~IsUtf8(scalar_value.v) THEN Err(InvalidUtf8)
                         ELSE IF ParseF64(scalar_value.v).ok
                         THEN Ok(ScalarDouble(ParseF64(scalar_value.v).val))
                         ELSE Err(ServerTypeError)
                    [] ScalarType_from_i64(scalar_type.v) = "Array" ->
                         IF scalar_value.t # "Bulk" THEN Err(ServerTypeError)
                         ELSE AndThen(Scalar_array_elements(scalar_value.v, g, <<>>),
                                      LAMBDA values : Ok(ScalarArray(values)))
                    [] ScalarType_from_i64(scalar_type.v) = "Node" ->
                         AndThen(Node_from_redis_value_with_graph(scalar_value, g),
                                 LAMBDA node : Ok(ScalarNode(node)))
                    [] ScalarType_from_i64(scalar_type.v) = "Edge" ->
                         AndThen(Edge_from_redis_value_with_graph(scalar_value, g),
                                 LAMBDA edge : Ok(ScalarEdge(edge)))
                    [] ScalarType_from_i64(scalar_type.v) = "Path" ->
                         AndThen(RawPath_from_redis_value_with_graph(scalar_value, g),
                                 LAMBDA path : Ok(ScalarPath(path)))
                    [] OTHER -> Err(ServerTypeError)

\* The scalars of a decoded array, each required to be of variant `want`.
RECURSIVE RawPath_unwrap(_, _, _)
RawPath_unwrap(scalars, want, acc) ==
    IF Len(scalars) = 0 THEN Ok(acc)
    ELSE IF scalars[1].s # want THEN Err(ServerTypeError)
    ELSE RawPath_unwrap(Tail(scalars), want, Append(acc, scalars[1].v))

\* One side of a path: a scalar that must be an array of `want` scalars.
RawPath_side(scalar, want) ==
    IF scalar.s # "Array" THEN Err(ServerTypeError)
    ELSE RawPath_unwrap(scalar.v, want, <<>>)

RawPath_from_redis_value_with_graph(value, g) ==
    IF value.t # "Bulk" THEN Err(ServerTypeError)
    ELSE IF Len(value.v) # 2 THEN Err(ServerTypeError)
    ELSE AndThen(
           Scalar_from_redis_value_with_graph(value.v[1], g),
           LAMBDA nodesScalar :
             AndThen(
               RawPath_side(nodesScalar, "Node"),
               LAMBDA nodes :
                 AndThen(
                   Scalar_from_redis_value_with_graph(value.v[2], g),
                   LAMBDA edgesScalar :
                     AndThen(RawPath_side(edgesScalar, "Edge"),
                             LAMBDA edges : Ok(RawPath(nodes, edges))))))

(***************************************************************************)
(* parse_statistics and the ResultSet decoder.                             *)
(***************************************************************************)
\* parse_statistics_entries with String::from_utf8_lossy: bytes that are no
\* UTF-8 are kept as an entry.
RECURSIVE parse_statistics_entries_Lossy(_, _)
parse_statistics_entries_Lossy(entries, acc) ==
    IF Len(entries) = 0 THEN Ok(acc)
    ELSE IF entries[1].t # "Data" THEN Err(ServerTypeError)
    ELSE parse_statistics_entries_Lossy(Tail(entries), Append(acc, entries[1].v))

\* statistics.into_iter().map(...).collect(): the entries in order up to the
\* first one that is no byte string or no UTF-8.
RECURSIVE parse_statistics_entries(_, _)
parse_statistics_entries(entries, acc) ==
    IF Len(entries) = 0 THEN Ok(acc)
    ELSE IF entries[1].t # "Data" THEN Err(ServerTypeError)
    ELSE IF ~IsUtf8(entries[1].v) THEN Err(InvalidUtf8)
    ELSE parse_statistics_entries(Tail(entries), Append(acc, entries[1].v))

\* parse_statistics taking a value that is no array for an empty list.
parse_statistics_Lenient(value) ==
    IF value.t # "Bulk" THEN Ok(<<>>)
    ELSE parse_statistics_entries(value.v, <<>>)

parse_statistics(value) ==
    IF value.t # "Bulk" THEN Err(ServerTypeError)
    ELSE parse_statistics_entries(value.v, <<>>)

\* result_rows turned into result_table: every row must be an array.
result_table_of(result_rows) ==
    IF result_rows.t # "Bulk" THEN Err(ServerTypeError)
    ELSE IF \E r \in 1..Len(result_rows.v) : result_rows.v[r].t # "Bulk"
         THEN Err(ServerTypeError)
         ELSE Ok([r \in 1..Len(result_rows.v) |-> result_rows.v[r].v])

\* The decoder a column type selects for its cells.
Cell_from_redis_value_with_graph(column_type, value, g) ==
    CASE column_type = 1 -> Scalar_from_redis_value_with_graph(value, g)
      [] column_type = 2 -> Node_from_redis_value_with_graph(value, g)
      [] column_type = 3 -> Edge_from_redis_value_with_graph(value, g)

\* result_table.iter_mut().map(|row| decode(row[i].take())).collect() for the
\* column with 0-based index i: row[i] panics on a row of at most i cells.
RECURSIVE Column_cells(_, _, _, _, _, _)
Column_cells(column_type, result_table, i, r, g, acc) ==
    IF r > Len(result_table) THEN Ok(acc)
    ELSE IF i >= Len(result_table[r]) THEN Err(Panic)
    ELSE AndThen(
           Cell_from_redis_value_with_graph(column_type, result_table[r][i + 1], g),
           LAMBDA cell :
               Column_cells(column_type, result_table, i, r + 1, g, Append(acc, cell)))

\* ColumnKind with the column types of nodes and relations exchanged.
ColumnKind_RelationsBeforeNodes(column_type) ==
    CASE column_type = 1 -> "Scalars"
      [] column_type = 2 -> "Relations"
      [] column_type = 3 -> "Nodes"

ColumnKind(column_type) ==
    CASE column_type = 1 -> "Scalars"
      [] column_type = 2 -> "Nodes"
      [] column_type = 3 -> "Relations"

\* for i in 0..column_count { ... columns.push(column) }
RECURSIVE ResultSet_columns(_, _, _, _, _)
ResultSet_columns(header_row, result_table, i, g, columns) ==
    IF i >= Len(header_row) THEN Ok(columns)
    ELSE LET header_cell == header_row[i + 1]
         IN  IF header_cell.t # "Bulk" THEN Err(ServerTypeError)
             ELSE IF Len(header_cell.v) = 0 THEN Err(Panic)
             ELSE IF header_cell.v[1].t # "Int" THEN Err(ServerTypeError)
             ELSE IF header_cell.v[1].v \notin 1..3 THEN Err(ServerTypeError)
             ELSE AndThen(
                    Column_cells(header_cell.v[1].v, result_table, i, 1, g, <<>>),
                    LAMBDA cells :
                        ResultSet_columns(
                            header_row, result_table, i + 1, g,
                            Append(columns, Column(ColumnKind(header_cell.v[1].v), cells))))

Column_len(column) == Len(column.cells)

\* if let Some(first_column) = columns.get(0) { if !columns.iter().all(...) }
ResultSet_equal_lengths(columns) ==
    IF \E k \in 1..Len(columns) : Column_len(columns[k]) # Column_len(columns[1])
    THEN Err(ServerTypeError)
    ELSE Ok(columns)

ResultSet_from_redis_value_with_graph(value, g) ==
    IF value.t # "Bulk" THEN Err(ServerTypeError)
    ELSE IF Len(value.v) = 3
    THEN LET header_row == value.v[1]
             result_rows == value.v[2]
             statistics == value.v[3]
         IN  IF header_row.t # "Bulk" THEN Err(ServerTypeError)
             ELSE AndThen(
                    result_table_of(result_rows),
                    LAMBDA result_table :
                      AndThen(
                        ResultSet_columns(header_row.v, result_table, 0, g, <<>>),
                        LAMBDA decoded :
                          AndThen(
                            ResultSet_equal_lengths(decoded),
                            LAMBDA columns :
                              AndThen(parse_statistics(statistics),
                                      LAMBDA stats : Ok(ResultSet(columns, stats))))))
    ELSE IF Len(value.v) = 1
    THEN AndThen(parse_statistics(value.v[1]),
                 LAMBDA stats : Ok(ResultSet(<<>>, stats)))
    ELSE Err(ServerTypeError)

\* What the decoder leaves of the value it was handed: the ResultSet decoder
\* takes all three (or the one) elements of the envelope before it looks at
\* them; everything below was moved out with them.
ResultSet_decode_leftover(value) ==
    IF value.t = "Bulk" /\ Len(value.v) \in {1, 3}
    THEN ValueBulk([k \in 1..Len(value.v) |-> Value_take_left(value.v[k])])
    ELSE value

(***************************************************************************)
(* The session: a Graph with its three identifier caches, the call in      *)
(* progress and what the transport delivered to it.                        *)
(***************************************************************************)
VARIABLES
    labels,              \* Graph.labels
    relationship_types,  \* Graph.relationship_types
    property_keys,       \* Graph.property_keys
    pc,                  \* where the call in progress stands
    reply,               \* the Value the transport returned for the query
    response,            \* get_result_set's parameter `response`
    attempt_value,       \* the value handed to the decoder by the latest attempt
    attempt_result,      \* what the decode attempt made since the latest refresh returned
    refreshes,           \* the refresh requests issued by this call, in order
    last_refresh,        \* the latest refresh step: kind, reply, caches before
    outcome,             \* what the call returned to its caller
    raw,                 \* a RawPath handed to Path::try_from
    overflow_checks,     \* whether the build panics on arithmetic overflow
    path_result,         \* what Path::try_from(raw) returned
    raw_back,            \* RawPath::from of the Path that try_from returned
    path_back,           \* what Path::try_from(raw_back) returned
    table,               \* a decoded ResultSet handed to a projection
    projection,          \* the projection asked for: target types and row
    projected,           \* what the projection returned
    wire,                \* a Value handed to one of the decoders
    decoder,             \* the decoder it is handed to
    decoded              \* what the decoder returned

sessionVars == <<labels, relationship_types, property_keys, pc, reply, response,
                 attempt_value, attempt_result, refreshes, last_refresh, outcome>>

pathVars == <<raw, overflow_checks, path_result, raw_back, path_back>>

projectionVars == <<table, projection, projected>>

decodeVars == <<wire, decoder, decoded>>

vars == <<sessionVars, pathVars, projectionVars, decodeVars>>

\* The Graph as the decoders read it.
graph == [labels |-> labels,
          relationship_types |-> relationship_types,
          property_keys |-> property_keys]

NotFoundKinds == {LabelNotFound, RelationshipTypeNotFound, PropertyKeyNotFound}

None == [none |-> TRUE]

(***************************************************************************)
(* Bounds and the inputs drawn within them.                                *)
(***************************************************************************)
\* The longest list of names an administrative query returns.
MaxNames == 2

\* The refresh requests one call may issue before the model stops following it
\* (the code itself sets no limit).
MaxRefreshes == 3

La == <<76, 97>>

Lb == <<76, 98>>

Ra == <<82, 97>>

Rb == <<82, 98>>

Ka == <<75, 97>>

Kb == <<75, 98>>

Stat == <<115>>

BadUtf8 == <<255>>

\* The lists without repetition of at most MaxNames of the given names.
NameLists(names) ==
    {l \in UNION {[1..n -> names] : n \in 0..MaxNames} :
        \A i, j \in 1..Len(l) : i # j => l[i] # l[j]}

HeaderCell(column_type) == ValueBulk(<<ValueInt(column_type), ValueData(Stat)>>)

Envelope(header, rows) ==
    ValueBulk(<<ValueBulk(header), ValueBulk(rows), ValueBulk(<<ValueData(Stat)>>)>>)

Property(key_id, value) == ValueBulk(<<ValueInt(key_id), ValueInt(3), ValueInt(value)>>)

NodeCell(label_ids, props) ==
    ValueBulk(<<ValueInt(0),
                ValueBulk([k \in 1..Len(label_ids) |-> ValueInt(label_ids[k])]),
                ValueBulk(props)>>)

EdgeCell(type_id, props) ==
    ValueBulk(<<ValueInt(0), ValueInt(type_id), ValueInt(0), ValueInt(1), ValueBulk(props)>>)

\* What the server answers to CALL db.labels() and its like when it lists `names`.
MappingReply(names) ==
    Envelope(<<HeaderCell(1)>>,
             [r \in 1..Len(names) |-> ValueBulk(<<ValueBulk(<<ValueInt(2), ValueData(names[r])>>)>>)])

\* Replies to the caller's query.
Replies ==
    { Envelope(<<HeaderCell(1)>>, <<ValueBulk(<<ValueBulk(<<ValueInt(3), ValueInt(42)>>)>>)>>),
      ValueBulk(<<ValueBulk(<<ValueData(Stat)>>)>>),
      Envelope(<<HeaderCell(2)>>, <<ValueBulk(<<NodeCell(<<0>>, <<Property(0, 7)>>)>>)>>),
      Envelope(<<HeaderCell(2)>>, <<ValueBulk(<<NodeCell(<<1>>, <<>>)>>)>>),
      Envelope(<<HeaderCell(2)>>, <<ValueBulk(<<NodeCell(<<0, 1>>, <<>>)>>)>>),
      Envelope(<<HeaderCell(2)>>, <<ValueBulk(<<NodeCell(<<-1>>, <<>>)>>)>>),
      Envelope(<<HeaderCell(3)>>, <<ValueBulk(<<EdgeCell(0, <<Property(1, 5)>>)>>)>>),
      Envelope(<<HeaderCell(2), HeaderCell(3)>>,
               <<ValueBulk(<<NodeCell(<<0>>, <<>>), EdgeCell(1, <<>>)>>)>>),
      Envelope(<<HeaderCell(2), HeaderCell(1)>>,
               <<ValueBulk(<<NodeCell(<<0>>, <<>>), ValueBulk(<<ValueInt(0), ValueNil>>)>>)>>),
      ValueBulk(<<ValueBulk(<<HeaderCell(2)>>),
                  ValueBulk(<<ValueBulk(<<NodeCell(<<0>>, <<>>)>>)>>),
                  ValueBulk(<<ValueData(BadUtf8)>>)>>),
      ValueBulk(<<ValueNil, ValueNil>>),
      ValueNil }

\* Replies to an administrative query that are no list of strings.
MalformedMappingReplies ==
    { ValueBulk(<<ValueBulk(<<ValueData(Stat)>>)>>),
      Envelope(<<HeaderCell(1)>>, <<ValueBulk(<<ValueBulk(<<ValueInt(3), ValueInt(1)>>)>>)>>),
      Envelope(<<HeaderCell(2)>>, <<ValueBulk(<<NodeCell(<<>>, <<>>)>>)>>),
      Envelope(<<HeaderCell(2)>>, <<ValueBulk(<<NodeCell(<<2>>, <<>>)>>)>>) }

MappingReplies(names) ==
    {MappingReply(l) : l \in NameLists(names)} \cup MalformedMappingReplies

(***************************************************************************)
(* Graph::get_mapping and the three update_* methods.                      *)
(***************************************************************************)
RECURSIVE get_mapping_strings(_, _)
get_mapping_strings(scalars, acc) ==
    IF Len(scalars) = 0 THEN Ok(acc)
    ELSE IF scalars[1].s # "String" THEN Err(ServerTypeError)
    ELSE get_mapping_strings(Tail(scalars), Append(acc, scalars[1].v))

\* match &mut result_set.columns[0] { ... }: indexing panics without a column.
get_mapping_column(result_set) ==
    IF Len(result_set.columns) = 0 THEN Err(Panic)
    ELSE IF result_set.columns[1].c # "Scalars" THEN Err(ServerTypeError)
    ELSE get_mapping_strings(result_set.columns[1].cells, <<>>)

get_mapping(g, mapping_response) ==
    AndThen(ResultSet_from_redis_value_with_graph(mapping_response, g),
            LAMBDA result_set : get_mapping_column(result_set))

\* What the transport does with a request: it hands back a Value or fails.
TransportFailure == [t |-> "Failure", v |-> 0]

\* self.request(...)?: redis-rs's query, map_err(RedisGraphError::from).
request(transport) ==
    IF transport.t = "Failure" THEN Err(TransportError) ELSE Ok(transport)

\* The list an update_* method assigns to its cache, or the error it returns.
update_mapping(g, transport) ==
    AndThen(request(transport), LAMBDA refresh_response : get_mapping(g, refresh_response))

\* assign_cache extending the old list instead of replacing it.
assign_cache_Merged(old, mapping) == old \o mapping

\* assign_cache dropping the mapping: the cache stays what it was.
assign_cache_Kept(old, mapping) == old

\* self.labels = mapping (and its like): the assignment replaces the Vec.
assign_cache(old, mapping) == mapping

(***************************************************************************)
(* Graph::get_result_set.                                                  *)
(***************************************************************************)
\* response_after_decode for a decoder handed `response` itself, not a clone.
response_after_decode_InPlace(resp) == ResultSet_decode_leftover(resp)

\* ResultSet::from_redis_value_with_graph(response.clone(), self): the decoder
\* consumes the clone, so `response` is afterwards what it was.
response_after_decode(resp) == resp

\* get_result_set_arm with a catch-all arm that refreshes the labels and retries.
get_result_set_arm_RetryAll(result) ==
    IF result.ok THEN "return"
    ELSE CASE result.err = LabelNotFound -> "update_labels"
           [] result.err = RelationshipTypeNotFound -> "update_relationship_types"
           [] result.err = PropertyKeyNotFound -> "update_property_keys"
           [] result.err = Panic -> "abort"
           [] OTHER -> "update_labels"

\* get_result_set_arm with the RelationshipTypeNotFound arm calling update_labels.
get_result_set_arm_WrongCache(result) ==
    IF result.ok THEN "return"
    ELSE CASE result.err = LabelNotFound -> "update_labels"
           [] result.err = RelationshipTypeNotFound -> "update_labels"
           [] result.err = PropertyKeyNotFound -> "update_property_keys"
           [] result.err = Panic -> "abort"
           [] OTHER -> "return"

\* get_result_set_arm with the LabelNotFound arm calling update_property_keys.
get_result_set_arm_KeysOnLabelMiss(result) ==
    IF result.ok THEN "return"
    ELSE CASE result.err = LabelNotFound -> "update_property_keys"
           [] result.err = RelationshipTypeNotFound -> "update_relationship_types"
           [] result.err = PropertyKeyNotFound -> "update_property_keys"
           [] result.err = Panic -> "abort"
           [] OTHER -> "return"

\* The arm of get_result_set's match that the decode result selects.
get_result_set_arm(result) ==
    IF result.ok THEN "return"
    ELSE CASE result.err = LabelNotFound -> "update_labels"
           [] result.err = RelationshipTypeNotFound -> "update_relationship_types"
           [] result.err = PropertyKeyNotFound -> "update_property_keys"
           [] result.err = Panic -> "abort"
           [] OTHER -> "return"

\* No path conversion is under way.
PathIdle ==
    /\ raw = None
    /\ overflow_checks = FALSE
    /\ path_result = None
    /\ raw_back = None
    /\ path_back = None

\* No projection is under way.
ProjectionIdle ==
    /\ table = None
    /\ projection = None
    /\ projected = None

\* No decoder is at work outside a call.
DecodeIdle ==
    /\ wire = None
    /\ decoder = None
    /\ decoded = None

\* Graph::open: the three caches start empty.
SessionInit ==
    /\ labels = <<>>
    /\ relationship_types = <<>>
    /\ property_keys = <<>>
    /\ pc = "idle"
    /\ reply = None
    /\ response = None
    /\ attempt_value = None
    /\ attempt_result = None
    /\ refreshes = <<>>
    /\ last_refresh = None
    /\ outcome = None

Init == SessionInit /\ PathIdle /\ ProjectionIdle /\ DecodeIdle

\* A reply that misses in the three kinds at once against empty caches: a
\* node with label id 1 and property key id 0, and an edge of type id 1.
ThreeKindsReply ==
    Envelope(<<HeaderCell(2), HeaderCell(3)>>,
             <<ValueBulk(<<NodeCell(<<1>>, <<Property(0, 7)>>), EdgeCell(1, <<>>)>>)>>)

\* The ids that the replies of the model refer to and a server can hold.
RepliedIds == 0..1

\* The lists of names that hold every such id.
FullNameLists(names) ==
    {l \in NameLists(names) : \A id \in RepliedIds : id < Len(l)}

\* What self.request(query) may return.  Server "any" answers with any reply
\* of the model or fails; server "served" may also send the reply that misses
\* in three kinds.
QueryTransports(server) ==
    IF server = "served"
    THEN Replies \cup {ThreeKindsReply, TransportFailure}
    ELSE Replies \cup {TransportFailure}

\* What self.request("CALL db.<kind>()") may return.  Server "any" answers
\* with any list of `names`, with a malformed response, or fails; server
\* "served" answers with a list that holds every id its replies refer to.
RefreshTransports(server, names) ==
    IF server = "served"
    THEN {MappingReply(l) : l \in FullNameLists(names)}
    ELSE MappingReplies(names) \cup {TransportFailure}

\* query / mutate up to the call of get_result_set: self.request(query)?,
\* answered by `server`.
QueryOf(server) ==
    /\ pc = "idle"
    /\ \E transport \in QueryTransports(server) :
          IF request(transport).ok
          THEN /\ pc' = "get_result_set"
               /\ reply' = request(transport).val
               /\ response' = request(transport).val
               /\ outcome' = None
          ELSE /\ pc' = "returned"
               /\ reply' = None
               /\ response' = None
               /\ outcome' = request(transport)
    /\ attempt_value' = None
    /\ attempt_result' = None
    /\ refreshes' = <<>>
    /\ last_refresh' = None
    /\ UNCHANGED <<labels, relationship_types, property_keys, pathVars, projectionVars, decodeVars>>

Query == QueryOf("any")

\* The match of get_result_set on the result of its decode attempt.
MatchDecoded(result) ==
    /\ attempt_result' = result
    /\ pc' = CASE get_result_set_arm(result) = "return" -> "returned"
               [] get_result_set_arm(result) = "abort" -> "aborted"
               [] OTHER -> get_result_set_arm(result)
    /\ outcome' = IF get_result_set_arm(result) = "return" THEN result ELSE outcome

\* One decode attempt of get_result_set.
DecodeAttempt ==
    /\ pc = "get_result_set"
    /\ attempt_value' = response
    /\ response' = response_after_decode(response)
    /\ MatchDecoded(ResultSet_from_redis_value_with_graph(response, graph))
    /\ UNCHANGED <<labels, relationship_types, property_keys, reply, refreshes,
                   last_refresh, pathVars, projectionVars, decodeVars>>

\* What a refresh step leaves behind: self.update_*()? followed, when it
\* succeeded, by the recursive self.get_result_set(response).
RefreshStep(kind, transport, mapping) ==
    /\ refreshes' = Append(refreshes, kind)
    /\ last_refresh' = [kind |-> kind, trigger |-> attempt_result.err,
                        transport |-> transport, before |-> graph, result |-> mapping]
    /\ pc' = IF mapping.ok THEN "get_result_set"
             ELSE IF mapping.err = Panic THEN "aborted" ELSE "returned"
    /\ outcome' = IF ~mapping.ok /\ mapping.err # Panic THEN mapping ELSE outcome
    /\ attempt_result' = None
    /\ UNCHANGED <<reply, response, attempt_value>>

\* self.labels = self.get_mapping(refresh_response)?
UpdateLabelsWith(transport, mapping) ==
    /\ labels' = IF mapping.ok THEN assign_cache(labels, mapping.val) ELSE labels
    /\ RefreshStep("labels", transport, mapping)

\* self.relationship_types = self.get_mapping(refresh_response)?
UpdateRelationshipTypesWith(transport, mapping) ==
    /\ relationship_types' =
           IF mapping.ok THEN assign_cache(relationship_types, mapping.val)
           ELSE relationship_types
    /\ RefreshStep("relationship_types", transport, mapping)

\* self.property_keys = self.get_mapping(refresh_response)?
UpdatePropertyKeysWith(transport, mapping) ==
    /\ property_keys' =
           IF mapping.ok THEN assign_cache(property_keys, mapping.val) ELSE property_keys
    /\ RefreshStep("property_keys", transport, mapping)

\* update_labels(), its request answered by `server`.
UpdateLabelsOf(server) ==
    /\ pc = "update_labels"
    /\ Len(refreshes) < MaxRefreshes
    /\ \E transport \in RefreshTransports(server, {La, Lb}) :
          UpdateLabelsWith(transport, update_mapping(graph, transport))
    /\ UNCHANGED <<relationship_types, property_keys, pathVars, projectionVars, decodeVars>>

\* update_relationship_types(), its request answered by `server`.
UpdateRelationshipTypesOf(server) ==
    /\ pc = "update_relationship_types"
    /\ Len(refreshes) < MaxRefreshes
    /\ \E transport \in RefreshTransports(server, {Ra, Rb}) :
          UpdateRelationshipTypesWith(transport, update_mapping(graph, transport))
    /\ UNCHANGED <<labels, property_keys, pathVars, projectionVars, decodeVars>>

\* update_property_keys(), its request answered by `server`.
UpdatePropertyKeysOf(server) ==
    /\ pc = "update_property_keys"
    /\ Len(refreshes) < MaxRefreshes
    /\ \E transport \in RefreshTransports(server, {Ka, Kb}) :
          UpdatePropertyKeysWith(transport, update_mapping(graph, transport))
    /\ UNCHANGED <<labels, relationship_types, pathVars, projectionVars, decodeVars>>

UpdateLabels == UpdateLabelsOf("any")

UpdateRelationshipTypes == UpdateRelationshipTypesOf("any")

UpdatePropertyKeys == UpdatePropertyKeysOf("any")

\* The caller has the result; the session is ready for its next call.
Return ==
    /\ pc = "returned"
    /\ pc' = "idle"
    /\ reply' = None
    /\ response' = None
    /\ attempt_value' = None
    /\ attempt_result' = None
    /\ refreshes' = <<>>
    /\ last_refresh' = None
    /\ outcome' = None
    /\ UNCHANGED <<labels, relationship_types, property_keys, pathVars, projectionVars, decodeVars>>

Next ==
    \/ Query
    \/ DecodeAttempt
    \/ UpdateLabels
    \/ UpdateRelationshipTypes
    \/ UpdatePropertyKeys
    \/ Return

Spec == Init /\ [][Next]_vars

(***************************************************************************)
(* The cache-miss retry of get_result_set: C1 to C7.                       *)
(***************************************************************************)
RefreshCount(kind) == Cardinality({i \in 1..Len(refreshes) : refreshes[i] = kind})

CacheKinds == {"labels", "relationship_types", "property_keys"}

KindOfMiss(err) ==
    CASE err = LabelNotFound -> "labels"
      [] err = RelationshipTypeNotFound -> "relationship_types"
      [] err = PropertyKeyNotFound -> "property_keys"

CacheOf(g, kind) ==
    CASE kind = "labels" -> g.labels
      [] kind = "relationship_types" -> g.relationship_types
      [] kind = "property_keys" -> g.property_keys

\* A decode attempt has been made since the latest refresh and it failed with
\* a not-found kind.
AttemptMissed ==
    /\ attempt_result # None
    /\ ~attempt_result.ok
    /\ attempt_result.err \in NotFoundKinds

\* C1: within one top-level call at most one refresh request is issued per miss
\* kind (labels, relationship types, property keys).
C1_AtMostOneRefreshPerKind == \A kind \in CacheKinds : RefreshCount(kind) <= 1

\* C2: when a decode attempt made after the refresh of a kind fails with that
\* kind's not-found error again, the call has ended and has returned that error
\* to its caller (it does not go on to refresh and decode again).
C2_PersistentMissIsReturned ==
    (AttemptMissed /\ RefreshCount(KindOfMiss(attempt_result.err)) >= 1)
        => (pc = "returned" /\ outcome = attempt_result)

\* The first cell of the first row of a reply, where the reply has one.
HasFirstCell(v) ==
    /\ v # None
    /\ v.t = "Bulk"
    /\ Len(v.v) = 3
    /\ v.v[1].t = "Bulk"
    /\ Len(v.v[1].v) >= 1
    /\ v.v[1].v[1].t = "Bulk"
    /\ Len(v.v[1].v[1].v) >= 1
    /\ v.v[1].v[1].v[1].t = "Int"
    /\ v.v[2].t = "Bulk"
    /\ Len(v.v[2].v) >= 1
    /\ v.v[2].v[1].t = "Bulk"
    /\ Len(v.v[2].v[1].v) >= 1

FirstCell(v) == v.v[2].v[1].v[1]

FirstColumnType(v) == v.v[1].v[1].v[1].v

IsIntList(v) == v.t = "Bulk" /\ \A k \in 1..Len(v.v) : v.v[k].t = "Int"

\* A property list whose entries are [key id, 3, integer].
IsIntegerProperties(v) ==
    /\ v.t = "Bulk"
    /\ \A k \in 1..Len(v.v) :
          /\ v.v[k].t = "Bulk"
          /\ Len(v.v[k].v) = 3
          /\ v.v[k].v[1].t = "Int"
          /\ v.v[k].v[2] = ValueInt(3)
          /\ v.v[k].v[3].t = "Int"

IsNodeCell(cell) ==
    cell.t = "Bulk" /\ Len(cell.v) = 3 /\ IsIntList(cell.v[2]) /\ IsIntegerProperties(cell.v[3])

IsEdgeCell(cell) ==
    cell.t = "Bulk" /\ Len(cell.v) = 5 /\ cell.v[2].t = "Int" /\ IsIntegerProperties(cell.v[5])

\* The reply's first cell is a node cell of a node column, or an edge cell of a
\* relation column.
HasFirstEntity(v) ==
    /\ HasFirstCell(v)
    /\ \/ FirstColumnType(v) = 2 /\ IsNodeCell(FirstCell(v))
       \/ FirstColumnType(v) = 3 /\ IsEdgeCell(FirstCell(v))

\* The ids of a kind that an entity cell refers to, in the order of decoding.
IdsOfCell(cell, kind) ==
    LET props == IF Len(cell.v) = 3 THEN cell.v[3].v ELSE cell.v[5].v
    IN  CASE kind = "labels" ->
               IF Len(cell.v) = 3
               THEN [k \in 1..Len(cell.v[2].v) |-> cell.v[2].v[k].v]
               ELSE <<>>
          [] kind = "relationship_types" ->
               IF Len(cell.v) = 5 THEN <<cell.v[2].v>> ELSE <<>>
          [] kind = "property_keys" -> [k \in 1..Len(props) |-> props[k].v[1].v]

Resolves(cache, id) == id >= 0 /\ id < Len(cache)

\* The positions in `ids` of the ids that `cache` does not resolve.
Misses(ids, cache) == {k \in 1..Len(ids) : ~Resolves(cache, ids[k])}

\* The id that made the decode fail: the first id of the kind that the cache
\* held before the refresh did not resolve.
MissedId(cell, kind, before) ==
    LET ids == IdsOfCell(cell, kind)
    IN  ids[CHOOSE k \in Misses(ids, before) : \A j \in Misses(ids, before) : k <= j]

\* The latest refresh answered a miss on an id of the reply's first entity and
\* installed a cache that holds that id, and the reply has been decoded again.
RefreshResolvedMiss ==
    /\ HasFirstEntity(reply)
    /\ last_refresh # None
    /\ last_refresh.result.ok
    /\ attempt_result # None
    /\ LET kind == last_refresh.kind
       IN  /\ Misses(IdsOfCell(FirstCell(reply), kind), CacheOf(last_refresh.before, kind)) # {}
           /\ Resolves(CacheOf(graph, kind),
                       MissedId(FirstCell(reply), kind, CacheOf(last_refresh.before, kind)))

\* The names the decoded first entity carries for the ids of a kind.
DecodedNames(entity, kind) ==
    CASE kind = "labels" -> {entity.labels[k] : k \in 1..Len(entity.labels)}
      [] kind = "relationship_types" -> {entity.type_name}
      [] kind = "property_keys" -> DOMAIN entity.properties

\* The decoded entity carries the name that the cache now holds at the id.
CarriesRefreshedName ==
    LET kind == last_refresh.kind
        id == MissedId(FirstCell(reply), kind, CacheOf(last_refresh.before, kind))
    IN  CacheOf(graph, kind)[id + 1]
            \in DecodedNames(attempt_result.val.columns[1].cells[1], kind)

\* Caches that resolve every id a reply of the model refers to.
FullGraph ==
    [labels |-> <<La, Lb>>, relationship_types |-> <<Ra, Rb>>, property_keys |-> <<Ka, Kb>>]

\* The reply is one a server can send: it decodes once every id is cached.
WellFormedReply == ResultSet_from_redis_value_with_graph(reply, FullGraph).ok

\* C3 as stated: when the decode of a (well-formed) reply fails on an id past
\* the end of a cache and the refresh installs a cache that holds the id, the
\* decode that follows succeeds and the decoded entity carries the name stored
\* at that id.
C3_RedecodeSucceeds ==
    (RefreshResolvedMiss /\ WellFormedReply)
        => (attempt_result.ok /\ CarriesRefreshedName)

\* Every id of every kind in the reply's only cell is resolved by the caches.
OnlyCellResolved ==
    /\ Len(reply.v[1].v) = 1
    /\ Len(reply.v[2].v) = 1
    /\ Len(reply.v[2].v[1].v) = 1
    /\ reply.v[3] = ValueBulk(<<ValueData(Stat)>>)
    /\ \A kind \in CacheKinds :
          Misses(IdsOfCell(FirstCell(reply), kind), CacheOf(graph, kind)) = {}

\* C3 as amended: after such a refresh the decode that follows no longer fails
\* on that id; whenever it succeeds the decoded entity carries the name the
\* refreshed cache stores at the id, and it does succeed when the reply is well
\* formed and the caches resolve every id it refers to.  Another id that is
\* still unresolved, or a malformed part of the reply, makes it fail again.
C3_RedecodeResolvesThatId ==
    RefreshResolvedMiss =>
        /\ attempt_result.ok => CarriesRefreshedName
        /\ OnlyCellResolved => attempt_result.ok

\* A refresh resolved the missed label id 1 and the second decode succeeded.
C3_Witness ==
    /\ RefreshResolvedMiss
    /\ OnlyCellResolved
    /\ attempt_result.ok
    /\ last_refresh.kind = "labels"
    /\ Len(last_refresh.before.labels) = 1
    /\ MissedId(FirstCell(reply), "labels", last_refresh.before.labels) = 1
    /\ attempt_result.val.columns[1].cells[1].labels = <<labels[2]>>

\* C4: every decode attempt of a call is handed a value equal to the reply the
\* transport delivered, whatever earlier attempts took out of their input.
C4_AttemptsDecodeOriginalReply == attempt_value # None => attempt_value = reply

\* A second attempt has decoded a reply from which a decoder takes elements.
C4_Witness ==
    /\ Len(refreshes) >= 1
    /\ attempt_result # None
    /\ attempt_value = reply
    /\ ResultSet_decode_leftover(reply) # reply

\* C5: a decode attempt that fails with an error other than the three not-found
\* kinds ends the call with that error: no refresh and no further attempt
\* follows it.
C5_OtherErrorsReturnAtOnce ==
    (/\ attempt_result # None
     /\ ~attempt_result.ok
     /\ attempt_result.err \notin NotFoundKinds \cup {Panic})
        => (pc = "returned" /\ outcome = attempt_result)

\* After a refresh the reply's statistics turned out not to be UTF-8.
C5_Witness ==
    /\ attempt_result = Err(InvalidUtf8)
    /\ Len(refreshes) >= 1
    /\ pc = "returned"

\* The string payloads of the first column of an administrative reply, by row.
FirstColumnStrings(v) == [r \in 1..Len(v.v[2].v) |-> v.v[2].v[r].v[1].v[2].v]

\* C6: after a successful refresh the refreshed cache is exactly the list of
\* the strings in the first column of the administrative query's result, in
\* row order; nothing of the old list is kept.
C6_RefreshReplacesCache ==
    (last_refresh # None /\ last_refresh.result.ok)
        => CacheOf(graph, last_refresh.kind) = FirstColumnStrings(last_refresh.transport)

\* A refresh replaced a non-empty label cache by a list that shares no name
\* with it.
C6_Witness ==
    /\ last_refresh # None
    /\ last_refresh.result.ok
    /\ last_refresh.kind = "labels"
    /\ last_refresh.before.labels = <<La>>
    /\ labels = <<Lb>>

\* C7: a refresh answers a miss with the request for the cache of that kind and
\* leaves the two other caches as they were.
C7_RefreshTouchesOwnCacheOnly ==
    last_refresh # None =>
        /\ last_refresh.kind = KindOfMiss(last_refresh.trigger)
        /\ \A kind \in CacheKinds \ {last_refresh.kind} :
              CacheOf(graph, kind) = CacheOf(last_refresh.before, kind)

\* A relationship-type miss refreshed the relationship types while the labels
\* and property keys were non-empty.
C7_Witness ==
    /\ last_refresh # None
    /\ last_refresh.trigger = RelationshipTypeNotFound
    /\ last_refresh.result.ok
    /\ relationship_types # last_refresh.before.relationship_types
    /\ labels # <<>>
    /\ property_keys # <<>>

(***************************************************************************)
(* Path and RawPath: TryFrom<RawPath> for Path, Path::len, From<Path>.     *)
(***************************************************************************)
PathCons(node, edge, next) == [p |-> "Cons", node |-> node, edge |-> edge, next |-> next]

PathEnd(start, edge, end) == [p |-> "End", start |-> start, edge |-> edge, end |-> end]

\* a - b on usize: a panic when the build checks overflow, else the wrapped
\* difference.  usize is modelled 31 bits wide; the code only compares the
\* wrapped difference with 0.
usize_sub(a, b, checks) ==
    IF a >= b THEN Ok(a - b)
    ELSE IF checks THEN Err(Panic)
    ELSE Ok((2147483647 - (b - a)) + 1)

\* Option::take on element i (0-based) of a Vec<Option<T>>.
Option_take_left(options, i) == [options EXCEPT ![i + 1] = None]

\* for i in start..=last { segment = Path::Cons(nodes[i].take().unwrap(),
\* edges[i].take().unwrap(), Box::new(segment)) }: the range counts upwards and
\* is empty when start > last; unwrap panics on an element taken before.
RECURSIVE try_from_loop(_, _, _, _, _)
try_from_loop(nodes, edges, i, last, segment) ==
    IF i > last THEN Ok(segment)
    ELSE IF nodes[i + 1] = None \/ edges[i + 1] = None THEN Err(Panic)
    ELSE try_from_loop(Option_take_left(nodes, i), Option_take_left(edges, i), i + 1, last,
                       PathCons(nodes[i + 1], edges[i + 1], segment))

Path_try_from(path, checks) ==
    IF Len(path.edges) = 0 THEN Err(ServerTypeError)
    ELSE IF Len(path.nodes) # Len(path.edges) + 1 THEN Err(ServerTypeError)
    ELSE LET len == Len(path.edges)
             segment == PathEnd(path.nodes[len], path.edges[len], path.nodes[len + 1])
             nodes == Option_take_left(Option_take_left(path.nodes, len - 1), len)
             edges == Option_take_left(path.edges, len - 1)
         IN  AndThen(usize_sub(len, 2, checks),
                     LAMBDA start : try_from_loop(nodes, edges, start, 0, segment))

\* Path::iter().count()
RECURSIVE Path_len(_)
Path_len(path) == IF path.p = "Cons" THEN 1 + Path_len(path.next) ELSE 1

Path_is_empty(path) == Path_len(path) = 0

\* RawPath_from_Path leaving out the end node of the End segment.
RECURSIVE RawPath_from_Path_NoEndNode(_, _)
RawPath_from_Path_NoEndNode(path, acc) ==
    IF path.p = "Cons"
    THEN RawPath_from_Path_NoEndNode(
             path.next, RawPath(Append(acc.nodes, path.node), Append(acc.edges, path.edge)))
    ELSE RawPath(Append(acc.nodes, path.start), Append(acc.edges, path.edge))

\* From<Path> for RawPath: every segment pushes its node and edge, the End
\* segment its end node as well.
RECURSIVE RawPath_from_Path(_, _)
RawPath_from_Path(path, acc) ==
    IF path.p = "Cons"
    THEN RawPath_from_Path(path.next,
                           RawPath(Append(acc.nodes, path.node), Append(acc.edges, path.edge)))
    ELSE RawPath(Append(Append(acc.nodes, path.start), path.end), Append(acc.edges, path.edge))

\* The longest RawPath handed to try_from has this many edges.
MaxPathEdges == 3

PathNodes == {Node(<<La>>, EmptyMap), Node(<<Lb>>, EmptyMap)}

PathEdges == {Edge(Ra, EmptyMap), Edge(Rb, EmptyMap)}

RawPaths ==
    {RawPath(nodes, edges) :
        nodes \in UNION {[1..n -> PathNodes] : n \in 0..(MaxPathEdges + 1)},
        edges \in UNION {[1..n -> PathEdges] : n \in 0..MaxPathEdges}}

InitPath ==
    /\ SessionInit
    /\ ProjectionIdle
    /\ DecodeIdle
    /\ raw \in RawPaths
    /\ overflow_checks \in BOOLEAN
    /\ path_result = None
    /\ raw_back = None
    /\ path_back = None

\* Path::try_from(raw)
TryFrom ==
    /\ raw # None
    /\ path_result = None
    /\ path_result' = Path_try_from(raw, overflow_checks)
    /\ UNCHANGED <<sessionVars, projectionVars, decodeVars, raw, overflow_checks, raw_back,
                   path_back>>

\* RawPath::from(path) of the Path that try_from returned.
IntoRawPath ==
    /\ path_result # None
    /\ path_result.ok
    /\ raw_back = None
    /\ raw_back' = RawPath_from_Path(path_result.val, RawPath(<<>>, <<>>))
    /\ UNCHANGED <<sessionVars, projectionVars, decodeVars, raw, overflow_checks, path_result,
                   path_back>>

NextPath ==
    \/ TryFrom
    \/ IntoRawPath

SpecPath == InitPath /\ [][NextPath]_vars

\* The Path values of n segments: n - 1 Cons segments before an End segment.
RECURSIVE PathsOf(_)
PathsOf(n) ==
    IF n = 1
    THEN {PathEnd(start, edge, end) : start \in PathNodes, edge \in PathEdges, end \in PathNodes}
    ELSE {PathCons(node, edge, next) :
             node \in PathNodes, edge \in PathEdges, next \in PathsOf(n - 1)}

\* A Path value of up to MaxPathEdges segments, however it was built.
InitPathValue ==
    /\ SessionInit
    /\ ProjectionIdle
    /\ DecodeIdle
    /\ raw = None
    /\ overflow_checks \in BOOLEAN
    /\ \E n \in 1..MaxPathEdges : \E path \in PathsOf(n) : path_result = Ok(path)
    /\ raw_back = None
    /\ path_back = None

\* Path::try_from(raw_back): the RawPath made of a Path, converted back.
TryFromBack ==
    /\ raw_back # None
    /\ path_back = None
    /\ path_back' = Path_try_from(raw_back, overflow_checks)
    /\ UNCHANGED <<sessionVars, projectionVars, decodeVars, raw, overflow_checks, path_result,
                   raw_back>>

NextPathValue ==
    \/ IntoRawPath
    \/ TryFromBack

SpecPathValue == InitPathValue /\ [][NextPathValue]_vars

\* The RawPath has at least one edge and one node more than it has edges.
ValidRawPath == Len(raw.edges) >= 1 /\ Len(raw.nodes) = Len(raw.edges) + 1

\* C8: a RawPath with at least one edge and nodes.len() == edges.len() + 1,
\* converted to Path and back, is the RawPath it was.
C8_PathRoundTrip == (raw_back # None /\ ValidRawPath) => raw_back = raw

\* C9: try_from returns an error when edges is empty or the lengths do not
\* match, and a Path in every other case; it never aborts.
C9_TryFromErrorsExactlyOnBadLengths ==
    path_result # None =>
        IF ValidRawPath THEN path_result.ok ELSE path_result = Err(ServerTypeError)

(***************************************************************************)
(* ResultSet accessors and the projections of src/assignments.rs.          *)
(***************************************************************************)
ResultSet_num_columns(rs) == Len(rs.columns)

ResultSet_num_rows(rs) == IF Len(rs.columns) >= 1 THEN Column_len(rs.columns[1]) ELSE 0

\* ResultSet_get_scalar looking the cell up in column 0 whatever the column index.
ResultSet_get_scalar_FirstColumn(rs, row_idx, column_idx) ==
    IF column_idx >= Len(rs.columns) THEN Err(ClientTypeError)
    ELSE LET column == rs.columns[1]
         IN  IF column.c # "Scalars" THEN Err(ClientTypeError)
             ELSE IF row_idx >= Len(column.cells) THEN Err(ClientTypeError)
             ELSE Ok(column.cells[row_idx + 1])

ResultSet_get_scalar(rs, row_idx, column_idx) ==
    IF column_idx >= Len(rs.columns) THEN Err(ClientTypeError)
    ELSE LET column == rs.columns[column_idx + 1]
         IN  IF column.c # "Scalars" THEN Err(ClientTypeError)
             ELSE IF row_idx >= Len(column.cells) THEN Err(ClientTypeError)
             ELSE Ok(column.cells[row_idx + 1])

ResultSet_get_node(rs, row_idx, column_idx) ==
    IF column_idx >= Len(rs.columns) THEN Err(ClientTypeError)
    ELSE LET column == rs.columns[column_idx + 1]
         IN  IF column.c = "Nodes"
             THEN IF row_idx >= Len(column.cells) THEN Err(ClientTypeError)
                  ELSE Ok(column.cells[row_idx + 1])
             ELSE IF column.c = "Scalars"
             THEN IF row_idx >= Len(column.cells) THEN Err(ClientTypeError)
                  ELSE IF column.cells[row_idx + 1].s = "Node"
                  THEN Ok(column.cells[row_idx + 1].v)
                  ELSE Err(ClientTypeError)
             ELSE Err(ClientTypeError)

\* The conversion of a Scalar into i64.
i64_from_scalar(scalar) ==
    IF scalar.s = "Integer" THEN Ok(scalar.v) ELSE Err(ClientTypeError)

\* The unit value (), the target for "no value".
Unit == [unit |-> TRUE]

OptionSome(v) == [some |-> TRUE, v |-> v]

OptionNone == [some |-> FALSE]

\* The primitive target types other than i64, and the optional ones.
PrimitiveTargets == {"bool", "i64", "f64", "RedisString", "unit"}

OptionTargets == {"Option<bool>", "Option<i64>", "Option<f64>", "Option<RedisString>"}

\* T of Option<T>.
Option_inner(target) ==
    CASE target = "Option<bool>" -> "bool"
      [] target = "Option<i64>" -> "i64"
      [] target = "Option<f64>" -> "f64"
      [] target = "Option<RedisString>" -> "RedisString"

\* The conversion of a Scalar into a primitive type: the value of the variant
\* that the type asks for, a client type error for every other variant.
primitive_from_scalar(target, scalar) ==
    CASE target = "bool" ->
           IF scalar.s = "Boolean" THEN Ok(scalar.v) ELSE Err(ClientTypeError)
      [] target = "i64" -> i64_from_scalar(scalar)
      [] target = "f64" ->
           IF scalar.s = "Double" THEN Ok(scalar.v) ELSE Err(ClientTypeError)
      [] target = "RedisString" ->
           IF scalar.s = "String" THEN Ok(scalar.v) ELSE Err(ClientTypeError)
      [] target = "unit" ->
           IF scalar.s = "Nil" THEN Ok(Unit) ELSE Err(ClientTypeError)

\* The conversion of a Scalar into Option<T>: None for Scalar::Nil, Some of
\* the conversion into T for every other variant.
option_from_scalar(target, scalar) ==
    IF scalar.s = "Nil" THEN Ok(OptionNone)
    ELSE AndThen(primitive_from_scalar(Option_inner(target), scalar),
                 LAMBDA v : Ok(OptionSome(v)))

\* FromCell::from_cell for the target types Scalar, i64 and Node, the other
\* primitive types and the optional types.
from_cell(target, rs, row_idx, column_idx) ==
    CASE target = "Scalar" -> ResultSet_get_scalar(rs, row_idx, column_idx)
      [] target = "i64" ->
           AndThen(ResultSet_get_scalar(rs, row_idx, column_idx),
                   LAMBDA scalar : i64_from_scalar(scalar))
      [] target = "Node" -> ResultSet_get_node(rs, row_idx, column_idx)
      [] target \in PrimitiveTargets \ {"i64"} ->
           AndThen(ResultSet_get_scalar(rs, row_idx, column_idx),
                   LAMBDA scalar : primitive_from_scalar(target, scalar))
      [] target \in OptionTargets ->
           AndThen(ResultSet_get_scalar(rs, row_idx, column_idx),
                   LAMBDA scalar : option_from_scalar(target, scalar))

\* The elements of the tuple from position i on: $name::from_cell(result_set,
\* row_idx, { i += 1; i - 1 })? for each type of the tuple, left to right.
RECURSIVE tuple_cells(_, _, _, _, _)
tuple_cells(targets, rs, row_idx, i, acc) ==
    IF i >= Len(targets) THEN Ok(acc)
    ELSE AndThen(from_cell(targets[i + 1], rs, row_idx, i),
                 LAMBDA cell : tuple_cells(targets, rs, row_idx, i + 1, Append(acc, cell)))

\* tuple_arity_mismatch letting a tuple shorter than the table through.
tuple_arity_mismatch_TooFewOnly(num_columns, n) == num_columns < n

\* if result_set.num_columns() != n { return client_type_error!(...) }
tuple_arity_mismatch(num_columns, n) == num_columns # n

\* FromRow::from_row for the tuple of the types `targets`.
tuple_from_row(targets, rs, row_idx) ==
    IF tuple_arity_mismatch(ResultSet_num_columns(rs), Len(targets))
    THEN Err(ClientTypeError)
    ELSE tuple_cells(targets, rs, row_idx, 0, <<>>)

\* T::from_row(result_set, row_idx) for the row type T: a cell type (impl
\* FromRow for T: FromCell, column 0) or a tuple of cell types.
from_row(row_kind, targets, rs, row_idx) ==
    IF row_kind = "cell" THEN from_cell(targets[1], rs, row_idx, 0)
    ELSE tuple_from_row(targets, rs, row_idx)

\* Vec_from_table_rows leaving out the rows that do not convert.
RECURSIVE Vec_from_table_rows_SkipFailed(_, _, _, _, _, _)
Vec_from_table_rows_SkipFailed(row_kind, targets, rs, i, num_rows, ret) ==
    IF i >= num_rows THEN Ok(ret)
    ELSE Vec_from_table_rows_SkipFailed(
             row_kind, targets, rs, i + 1, num_rows,
             IF from_row(row_kind, targets, rs, i).ok
             THEN Append(ret, from_row(row_kind, targets, rs, i).val)
             ELSE ret)

\* for i in 0..num_rows { ret.push(T::from_row(result_set, i)?); } Ok(ret)
RECURSIVE Vec_from_table_rows(_, _, _, _, _, _)
Vec_from_table_rows(row_kind, targets, rs, i, num_rows, ret) ==
    IF i >= num_rows THEN Ok(ret)
    ELSE AndThen(from_row(row_kind, targets, rs, i),
                 LAMBDA row :
                     Vec_from_table_rows(row_kind, targets, rs, i + 1, num_rows,
                                         Append(ret, row)))

\* FromTable for Vec<T>
Vec_from_table(row_kind, targets, rs) ==
    Vec_from_table_rows(row_kind, targets, rs, 0, ResultSet_num_rows(rs), <<>>)

\* T_from_table reading the last row of the table.
T_from_table_LastRow(row_kind, targets, rs) ==
    from_row(row_kind, targets, rs,
             IF ResultSet_num_rows(rs) = 0 THEN 0 ELSE ResultSet_num_rows(rs) - 1)

\* FromTable for T: FromRow: T::from_row(result_set, 0)
T_from_table(row_kind, targets, rs) == from_row(row_kind, targets, rs, 0)

\* The most columns and rows of a ResultSet handed to a projection, and the
\* longest tuple asked for.
MaxColumns == 3

MaxRows == 2

MaxArity == 3

CellTargets == {"Scalar", "i64", "Node"}

ScalarCells == {ScalarInteger(42), ScalarNil}

NodeCells == {Node(<<La>>, EmptyMap)}

\* The columns of n cells.
Columns(n) ==
    {Column("Scalars", cells) : cells \in [1..n -> ScalarCells]}
        \cup {Column("Nodes", cells) : cells \in [1..n -> NodeCells]}

\* The decoded ResultSets: all columns of one ResultSet are equally long.
ResultSets ==
    UNION {{ResultSet(columns, <<Stat>>) :
               columns \in UNION {[1..c -> Columns(n)] : c \in 0..MaxColumns}} :
           n \in 0..MaxRows}

TupleTargets == UNION {[1..n -> CellTargets] : n \in 1..MaxArity}

InitProjection ==
    /\ SessionInit
    /\ PathIdle
    /\ DecodeIdle
    /\ table \in ResultSets
    /\ projection = None
    /\ projected = None

\* <(T1, ..., Tn) as FromRow>::from_row(&table, row_idx)
FromRowTuple ==
    /\ table # None
    /\ projection = None
    /\ \E targets \in TupleTargets, row_idx \in 0..MaxRows :
          /\ projection' = [shape |-> "tuple", targets |-> targets, row_idx |-> row_idx]
          /\ projected' = tuple_from_row(targets, table, row_idx)
    /\ UNCHANGED <<sessionVars, pathVars, decodeVars, table>>

NextProjection ==
    \/ FromRowTuple

SpecProjection == InitProjection /\ [][NextProjection]_vars

\* The row types of a projection: a cell type, or a tuple of cell types.
RowTypes ==
    {[row_kind |-> "cell", targets |-> <<t>>] : t \in CellTargets}
        \cup {[row_kind |-> "tuple", targets |-> ts] : ts \in TupleTargets}

\* <Vec<T> as FromTable>::from_table(&table)
FromTableVec ==
    /\ table # None
    /\ projection = None
    /\ \E row_type \in RowTypes :
          /\ projection' = [shape |-> "vec", row_kind |-> row_type.row_kind,
                            targets |-> row_type.targets]
          /\ projected' = Vec_from_table(row_type.row_kind, row_type.targets, table)
    /\ UNCHANGED <<sessionVars, pathVars, decodeVars, table>>

\* <T as FromTable>::from_table(&table) for a row type T
FromTableT ==
    /\ table # None
    /\ projection = None
    /\ \E row_type \in RowTypes :
          /\ projection' = [shape |-> "single", row_kind |-> row_type.row_kind,
                            targets |-> row_type.targets]
          /\ projected' = T_from_table(row_type.row_kind, row_type.targets, table)
    /\ UNCHANGED <<sessionVars, pathVars, decodeVars, table>>

NextTable ==
    \/ FromTableVec
    \/ FromTableT

SpecTable == InitProjection /\ [][NextTable]_vars

\* The most columns of a ResultSet whose cells are converted to primitive
\* types, and the longest tuple of primitive types asked for.
MaxPrimitives == 2

\* The columns of one cell: a Scalars column whose cell is of one of the
\* variants Nil, Boolean, Integer, Double, String, Array and Node (the results
\* of RETURN null, true, 42, 1.5, 'x', [42] and of a node), or a Nodes column.
PrimitiveColumnKinds == {"Nil", "Boolean", "Integer", "Double", "String", "Array", "Node", "Nodes"}

PrimitiveColumn(kind) ==
    CASE kind = "Nil" -> Column("Scalars", <<ScalarNil>>)
      [] kind = "Boolean" -> Column("Scalars", <<ScalarBoolean(TRUE)>>)
      [] kind = "Integer" -> Column("Scalars", <<ScalarInteger(42)>>)
      [] kind = "Double" ->
           Column("Scalars", <<ScalarDouble([neg |-> FALSE, mant |-> 15, scale |-> 1])>>)
      [] kind = "String" -> Column("Scalars", <<ScalarString(<<120>>)>>)
      [] kind = "Array" -> Column("Scalars", <<ScalarArray(<<ScalarInteger(42)>>)>>)
      [] kind = "Node" -> Column("Scalars", <<ScalarNode(Node(<<La>>, EmptyMap))>>)
      [] kind = "Nodes" -> Column("Nodes", <<Node(<<La>>, EmptyMap)>>)

\* The decoded ResultSet of one row whose columns are of the given kinds.
PrimitiveResultSet(kinds) ==
    ResultSet([k \in 1..Len(kinds) |-> PrimitiveColumn(kinds[k])], <<Stat>>)

InitConversion ==
    /\ SessionInit
    /\ PathIdle
    /\ DecodeIdle
    /\ \E c \in 1..MaxPrimitives :
          \E kinds \in [1..c -> PrimitiveColumnKinds] : table = PrimitiveResultSet(kinds)
    /\ projection = None
    /\ projected = None

\* <(T1, ..., Tn) as FromRow>::from_row(&table, 0) for primitive and optional
\* types T1, ..., Tn
FromRowPrimitives ==
    /\ table # None
    /\ projection = None
    /\ \E n \in 1..MaxPrimitives :
          \E targets \in [1..n -> PrimitiveTargets \cup OptionTargets] :
              /\ projection' = [shape |-> "primitives", targets |-> targets, row_idx |-> 0]
              /\ projected' = tuple_from_row(targets, table, 0)
    /\ UNCHANGED <<sessionVars, pathVars, decodeVars, table>>

\* <T as FromTable>::from_table(&table) for a primitive or optional type T
FromTablePrimitive ==
    /\ table # None
    /\ projection = None
    /\ \E target \in PrimitiveTargets \cup OptionTargets :
          /\ projection' = [shape |-> "primitive", targets |-> <<target>>, row_idx |-> 0]
          /\ projected' = T_from_table("cell", <<target>>, table)
    /\ UNCHANGED <<sessionVars, pathVars, decodeVars, table>>

NextConversion ==
    \/ FromRowPrimitives
    \/ FromTablePrimitive

SpecConversion == InitConversion /\ [][NextConversion]_vars

\* What the cell of a column at a 0-based row converts to, when it converts.
Converted(target, column, row_idx) ==
    LET cell == column.cells[row_idx + 1]
    IN  CASE target = "Scalar" -> cell
          [] target = "i64" -> cell.v
          [] target = "Node" -> IF column.c = "Nodes" THEN cell ELSE cell.v

\* Whether the cell of a column at a 0-based row converts to the target type.
Converts(target, column, row_idx) ==
    /\ row_idx < Len(column.cells)
    /\ CASE target = "Scalar" -> column.c = "Scalars"
         [] target = "i64" ->
              column.c = "Scalars" /\ column.cells[row_idx + 1].s = "Integer"
         [] target = "Node" ->
              \/ column.c = "Nodes"
              \/ column.c = "Scalars" /\ column.cells[row_idx + 1].s = "Node"

\* C10: a tuple projection of N types from a ResultSet whose num_columns() is
\* not N returns a client type error, never a shorter or longer tuple; with N
\* columns a returned tuple has N elements and element k is the conversion of
\* the cell at the row and column k, and the projection fails exactly when one
\* of those cells does not convert.
C10_TupleProjection ==
    (projected # None /\ projection.shape = "tuple") =>
        LET n == Len(projection.targets)
            row_idx == projection.row_idx
        IN  IF Len(table.columns) # n
            THEN projected = Err(ClientTypeError)
            ELSE /\ projected.ok =
                       \A k \in 1..n :
                           Converts(projection.targets[k], table.columns[k], row_idx)
                 /\ projected.ok =>
                       /\ Len(projected.val) = n
                       /\ \A k \in 1..n :
                              projected.val[k] =
                                  Converted(projection.targets[k], table.columns[k], row_idx)
                 /\ ~projected.ok => projected = Err(ClientTypeError)

\* A 3-tuple was asked of a ResultSet of 2 columns whose cells would convert.
C10_Witness ==
    /\ projected = Err(ClientTypeError)
    /\ projection.shape = "tuple"
    /\ projection.targets = <<"i64", "Node", "Scalar">>
    /\ Len(table.columns) = 2
    /\ Converts("i64", table.columns[1], projection.row_idx)
    /\ Converts("Node", table.columns[2], projection.row_idx)

\* A 2-tuple was projected from row 1 of a ResultSet of 2 columns.
C10_WitnessMatch ==
    /\ projected # None
    /\ projected.ok
    /\ projection.shape = "tuple"
    /\ projection.row_idx = 1
    /\ projection.targets = <<"i64", "Node">>
    /\ projected.val = <<42, Node(<<La>>, EmptyMap)>>

(***************************************************************************)
(* Projections of a whole table: Vec<T> and T.  C11 to C13.                *)
(***************************************************************************)
\* The 0-based rows of the table whose single-row conversion fails.
FailingRows ==
    {r \in 0..(ResultSet_num_rows(table) - 1) :
        ~from_row(projection.row_kind, projection.targets, table, r).ok}

\* C11: a projection to a collection of per-row values returns, when every row
\* converts, the list of num_rows() elements whose element r is the single-row
\* conversion of row r, in row order; when some row does not convert it returns
\* the error of the first such row and no list.
C11_VecProjection ==
    (projected # None /\ projection.shape = "vec") =>
        IF FailingRows = {}
        THEN /\ projected.ok
             /\ Len(projected.val) = ResultSet_num_rows(table)
             /\ \A r \in 0..(ResultSet_num_rows(table) - 1) :
                    projected.val[r + 1] =
                        from_row(projection.row_kind, projection.targets, table, r).val
        ELSE projected =
                 from_row(projection.row_kind, projection.targets, table,
                          CHOOSE r \in FailingRows : \A q \in FailingRows : r <= q)

\* Two rows of two columns were projected to a list of two (i64, Node) tuples.
C11_Witness ==
    /\ projected # None
    /\ projection.shape = "vec"
    /\ projection.row_kind = "tuple"
    /\ projection.targets = <<"i64", "Node">>
    /\ ResultSet_num_rows(table) = 2
    /\ projected = Ok(<<<<42, Node(<<La>>, EmptyMap)>>, <<42, Node(<<La>>, EmptyMap)>>>>)

\* C12: a projection to a collection of N-tuples from a ResultSet whose
\* num_columns() is not N returns the client type error, whatever the number
\* of rows (none included).
C12_VecArityCheckedPerCall ==
    (/\ projected # None
     /\ projection.shape = "vec"
     /\ projection.row_kind = "tuple"
     /\ ResultSet_num_columns(table) # Len(projection.targets))
        => projected = Err(ClientTypeError)

\* C13: a projection to a single cell type returns the conversion of the cell
\* at row 0, column 0, whatever other rows and columns there are, and a client
\* type error when that cell does not convert or the ResultSet has no row 0 or
\* no column 0.
C13_SingleCellProjection ==
    (projected # None /\ projection.shape = "single" /\ projection.row_kind = "cell") =>
        IF /\ ResultSet_num_columns(table) >= 1
           /\ ResultSet_num_rows(table) >= 1
           /\ Converts(projection.targets[1], table.columns[1], 0)
        THEN projected = Ok(Converted(projection.targets[1], table.columns[1], 0))
        ELSE projected = Err(ClientTypeError)

\* Integer(42) at row 0, column 0 of a table of two columns, with another cell
\* below it, was projected to i64.
C13_Witness ==
    /\ projected # None
    /\ projection.shape = "single"
    /\ projection.row_kind = "cell"
    /\ projection.targets = <<"i64">>
    /\ ResultSet_num_columns(table) = 2
    /\ table.columns[1].cells = <<ScalarInteger(42), ScalarNil>>
    /\ projected.ok
    /\ projected.val = 42

(***************************************************************************)
(* The decoders on their own: a Value handed to the ResultSet, the Scalar  *)
(* or the Node decoder of a Graph with given caches.                       *)
(***************************************************************************)
\* The most header cells and the most rows of an envelope handed to the
\* ResultSet decoder, and the most label ids and the most properties of a node.
MaxWireColumns == 2

MaxWireRows == 2

MaxWireIds == 2

Seqs(S, n) == UNION {[1..k -> S] : k \in 0..n}

Caches(label_lists, type_lists, key_lists) ==
    {[labels |-> l, relationship_types |-> t, property_keys |-> k] :
        l \in label_lists, t \in type_lists, k \in key_lists}

\* A Graph with empty caches and one whose caches hold two names each.
EmptyOrFullCaches ==
    Caches({<<>>}, {<<>>}, {<<>>}) \cup Caches({<<La, Lb>>}, {<<Ra, Rb>>}, {<<Ka, Kb>>})

ScalarCell(scalar_type, payload) == ValueBulk(<<ValueInt(scalar_type), payload>>)

\* Header cells: the column types 0 to 4 with a column name, a header cell
\* of the type alone, an empty one, one whose type is no integer, and a value
\* that is no array.
WireHeaderCells ==
    {HeaderCell(column_type) : column_type \in 0..4}
        \cup {ValueBulk(<<ValueInt(1)>>), ValueBulk(<<>>), ValueBulk(<<ValueData(Stat)>>), ValueNil}

\* A column as the server sends it: its header cell and the cell every row has
\* at its position.  Under any header cell a scalar, under a node column a
\* node, under a relation column an edge or a node.
WireColumns ==
    {[header |-> h, cell |-> ScalarCell(3, ValueInt(42))] : h \in WireHeaderCells}
        \cup {[header |-> HeaderCell(2), cell |-> NodeCell(<<0>>, <<>>)],
              [header |-> HeaderCell(3), cell |-> EdgeCell(0, <<>>)],
              [header |-> HeaderCell(3), cell |-> NodeCell(<<0>>, <<>>)]}

\* Envelopes of c columns and equally long rows.
UniformEnvelopes(c) ==
    {Envelope([k \in 1..c |-> columns[k].header],
              [r \in 1..n |-> ValueBulk([k \in 1..c |-> columns[k].cell])]) :
        columns \in [1..c -> WireColumns], n \in 0..MaxWireRows}

\* A row of the given number of cells under a header of scalar (1) and node (2)
\* columns: the cell its column asks for, a scalar past the last column.
RaggedRow(column_types, cells) ==
    ValueBulk([k \in 1..cells |->
                  IF k <= Len(column_types) /\ column_types[k] = 2
                  THEN NodeCell(<<0>>, <<>>)
                  ELSE ScalarCell(3, ValueInt(42))])

WireStatistics ==
    {ValueBulk(<<ValueData(Stat)>>), ValueBulk(<<ValueData(BadUtf8)>>), ValueBulk(<<>>),
     ValueBulk(<<ValueInt(1)>>), ValueNil}

\* The envelopes under a header of the given column types whose rows have up
\* to one cell more than the header has columns, or are no arrays.
RaggedEnvelopesOf(column_types) ==
    {ValueBulk(<<ValueBulk([k \in 1..Len(column_types) |-> HeaderCell(column_types[k])]),
                 ValueBulk(rows), statistics>>) :
        rows \in Seqs({RaggedRow(column_types, cells) : cells \in 0..(Len(column_types) + 1)}
                          \cup {ValueNil},
                      MaxWireRows),
        statistics \in WireStatistics}

\* Envelopes of c scalar and node columns with rows of any length.
RaggedEnvelopes(c) ==
    UNION {RaggedEnvelopesOf(column_types) : column_types \in [1..c -> {1, 2}]}

\* Replies of every other shape: no array, arrays of 0, 1, 2 and 4 elements,
\* and 3-element arrays whose header or rows are no arrays.
OtherShapes ==
    {ValueNil, ValueInt(3), ValueData(Stat), ValueBulk(<<>>),
     ValueBulk(<<ValueNil, ValueNil>>),
     ValueBulk(<<ValueBulk(<<>>), ValueBulk(<<>>)>>),
     ValueBulk(<<ValueBulk(<<>>), ValueBulk(<<>>), ValueBulk(<<>>), ValueBulk(<<>>)>>),
     ValueBulk(<<ValueNil, ValueBulk(<<>>), ValueBulk(<<>>)>>),
     ValueBulk(<<ValueBulk(<<>>), ValueNil, ValueBulk(<<>>)>>)}
        \cup {ValueBulk(<<statistics>>) : statistics \in WireStatistics}

\* The Values handed to the ResultSet decoder that have c columns, or are no
\* 3-element envelope.
ResultSetWires(c) == UniformEnvelopes(c) \cup RaggedEnvelopes(c) \cup OtherShapes

\* A path of two nodes and one edge as the server sends it.
PathValue ==
    ValueBulk(<<ScalarCell(6, ValueBulk(<<ScalarCell(8, NodeCell(<<0>>, <<>>)),
                                          ScalarCell(8, NodeCell(<<1>>, <<>>))>>)),
                ScalarCell(6, ValueBulk(<<ScalarCell(7, EdgeCell(0, <<>>))>>))>>)

\* Payloads of a scalar: nil, an integer, the texts "true", "false", "tru",
\* "1.5", "-2", "x", the empty text, bytes that are no UTF-8, arrays of no, of
\* two and of a malformed scalar, a node, an edge and a path.
WirePayloads ==
    {ValueNil, ValueInt(42),
     ValueData(<<116, 114, 117, 101>>), ValueData(<<102, 97, 108, 115, 101>>),
     ValueData(<<116, 114, 117>>), ValueData(<<49, 46, 53>>), ValueData(<<45, 50>>),
     ValueData(<<120>>), ValueData(<<>>), ValueData(BadUtf8),
     ValueBulk(<<>>),
     ValueBulk(<<ScalarCell(3, ValueInt(42)), ScalarCell(1, ValueNil)>>),
     ValueBulk(<<ScalarCell(0, ValueNil)>>),
     NodeCell(<<0>>, <<>>), EdgeCell(0, <<>>), PathValue}

WireScalarTypes == (-1)..10

ScalarWires ==
    {ScalarCell(scalar_type, payload) : scalar_type \in WireScalarTypes, payload \in WirePayloads}
        \cup {ValueBulk(<<ValueData(<<51>>), payload>>) : payload \in WirePayloads}
        \cup {ValueNil, ValueInt(3), ValueBulk(<<>>), ValueBulk(<<ValueInt(3)>>),
              ValueBulk(<<ValueInt(3), ValueInt(42), ValueNil>>)}

WireLabelIds == {ValueInt(id) : id \in (-1)..1} \cup {ValueData(La)}

WireProperties ==
    {Property(key_id, 7) : key_id \in (-1)..1}
        \cup {ValueBulk(<<ValueInt(0), ValueInt(2), ValueData(<<120>>)>>), ValueNil}

\* Nodes of n label ids and up to MaxWireIds properties, and values that are
\* no node.
NodeWires(n) ==
    {ValueBulk(<<ValueInt(0), ValueBulk(label_ids), ValueBulk(properties)>>) :
        label_ids \in [1..n -> WireLabelIds],
        properties \in Seqs(WireProperties, MaxWireIds)}
        \cup {ValueNil, ValueBulk(<<ValueInt(0), ValueBulk(<<>>)>>),
              ValueBulk(<<ValueInt(0), ValueNil, ValueBulk(<<>>)>>),
              ValueBulk(<<ValueInt(0), ValueBulk(<<>>), ValueNil>>)}

\* The most entries of a statistics list handed to parse_statistics.
MaxStatistics == 3

\* Entries of a statistics list: the texts "s", "La" and the empty text, bytes
\* that are no UTF-8, an integer, nil and an array.
StatisticsEntries ==
    {ValueData(Stat), ValueData(La), ValueData(<<>>), ValueData(BadUtf8),
     ValueInt(1), ValueNil, ValueBulk(<<ValueData(Stat)>>)}

\* Statistics lists of n entries, and values that are no array.
StatisticsWires(n) ==
    {ValueBulk(entries) : entries \in [1..n -> StatisticsEntries]}
        \cup {ValueNil, ValueInt(0), ValueData(Stat)}

\* Caches of one or two labels and of no or two property keys.
NodeCaches == Caches({<<La>>, <<La, Lb>>}, {<<>>}, {<<>>, <<Ka, Kb>>})

\* The Graph's caches are those of g.
CachesAre(g) ==
    /\ labels = g.labels
    /\ relationship_types = g.relationship_types
    /\ property_keys = g.property_keys

\* A Graph with some caches, no call in progress, and a Value for a decoder.
InitDecode ==
    /\ PathIdle
    /\ ProjectionIdle
    /\ pc = "idle"
    /\ reply = None
    /\ response = None
    /\ attempt_value = None
    /\ attempt_result = None
    /\ refreshes = <<>>
    /\ last_refresh = None
    /\ outcome = None
    /\ \/ /\ decoder = "ResultSet"
          /\ \E c \in 0..MaxWireColumns : wire \in ResultSetWires(c)
          /\ \E g \in EmptyOrFullCaches : CachesAre(g)
       \/ /\ decoder = "Scalar"
          /\ wire \in ScalarWires
          /\ \E g \in EmptyOrFullCaches : CachesAre(g)
       \/ /\ decoder = "Node"
          /\ \E n \in 0..MaxWireIds : wire \in NodeWires(n)
          /\ \E g \in NodeCaches : CachesAre(g)
       \/ /\ decoder = "Statistics"
          /\ \E n \in 0..MaxStatistics : wire \in StatisticsWires(n)
          /\ CachesAre(FullGraph)
    /\ decoded = None

\* ResultSet::from_redis_value_with_graph(wire, graph)
DecodeResultSet ==
    /\ decoder = "ResultSet"
    /\ decoded = None
    /\ decoded' = ResultSet_from_redis_value_with_graph(wire, graph)
    /\ UNCHANGED <<sessionVars, pathVars, projectionVars, wire, decoder>>

\* Scalar::from_redis_value_with_graph(wire, graph)
DecodeScalar ==
    /\ decoder = "Scalar"
    /\ decoded = None
    /\ decoded' = Scalar_from_redis_value_with_graph(wire, graph)
    /\ UNCHANGED <<sessionVars, pathVars, projectionVars, wire, decoder>>

\* Node::from_redis_value_with_graph(wire, graph)
DecodeNode ==
    /\ decoder = "Node"
    /\ decoded = None
    /\ decoded' = Node_from_redis_value_with_graph(wire, graph)
    /\ UNCHANGED <<sessionVars, pathVars, projectionVars, wire, decoder>>

\* parse_statistics(wire)
DecodeStatistics ==
    /\ decoder = "Statistics"
    /\ decoded = None
    /\ decoded' = parse_statistics(wire)
    /\ UNCHANGED <<sessionVars, pathVars, projectionVars, wire, decoder>>

NextDecode ==
    \/ DecodeResultSet
    \/ DecodeScalar
    \/ DecodeNode
    \/ DecodeStatistics

SpecDecode == InitDecode /\ [][NextDecode]_vars

(***************************************************************************)
(* The ResultSet decoder: C14 to C16.                                      *)
(***************************************************************************)
\* The ResultSet decoder has returned.
ResultSetDecoded == decoder = "ResultSet" /\ decoded # None

\* The Value is an array of three elements whose second element is an array.
IsEnvelope3(v) == v.t = "Bulk" /\ Len(v.v) = 3 /\ v.v[2].t = "Bulk"

\* C14: for every 3-element envelope that decodes, num_rows() is the number of
\* rows of the envelope and every column has that many cells, an envelope with
\* an empty header and some rows included.
C14_NumRowsIsRowCount ==
    (ResultSetDecoded /\ decoded.ok /\ IsEnvelope3(wire)) =>
        /\ ResultSet_num_rows(decoded.val) = Len(wire.v[2].v)
        /\ \A k \in 1..Len(decoded.val.columns) :
               Column_len(decoded.val.columns[k]) = Len(wire.v[2].v)

\* The Value is an array of byte strings that are all UTF-8.
IsStatistics(v) ==
    /\ v.t = "Bulk"
    /\ \A k \in 1..Len(v.v) : v.v[k].t = "Data" /\ IsUtf8(v.v[k].v)

\* The byte strings of an array of byte strings.
StatisticsOf(v) == [k \in 1..Len(v.v) |-> v.v[k].v]

\* C15: the decoder accepts a 3-element and a 1-element array only.  A
\* 1-element array decodes to a ResultSet of no columns with the statistics of
\* its element (and fails when that element is no list of UTF-8 strings); a
\* value that is no array, or an array of another length, fails with a server
\* type error.
C15_EnvelopeShapes ==
    ResultSetDecoded =>
        /\ (wire.t # "Bulk") => decoded = Err(ServerTypeError)
        /\ (wire.t = "Bulk" /\ Len(wire.v) \notin {1, 3}) => decoded = Err(ServerTypeError)
        /\ (wire.t = "Bulk" /\ Len(wire.v) = 1) =>
               IF IsStatistics(wire.v[1])
               THEN decoded = Ok(ResultSet(<<>>, StatisticsOf(wire.v[1])))
               ELSE ~decoded.ok /\ decoded.err \in {ServerTypeError, InvalidUtf8}

\* A 1-element array was decoded to a ResultSet of no columns with one
\* statistics entry; the caches play no part.
C15_Witness ==
    /\ ResultSetDecoded
    /\ wire = ValueBulk(<<ValueBulk(<<ValueData(Stat)>>)>>)
    /\ decoded.ok
    /\ decoded.val.columns = <<>>
    /\ decoded.val.statistics = <<Stat>>

\* C16: decoding a reply ends with a ResultSet or with a returned error; it
\* never aborts, in particular not on a row with fewer cells than the header
\* has columns nor on a header cell that is an empty array.
C16_DecodeReturns == ResultSetDecoded => (decoded.ok \/ decoded.err # Panic)

(***************************************************************************)
(* The Scalar decoder: C17 and C18.                                        *)
(***************************************************************************)
ScalarDecoded == decoder = "Scalar" /\ decoded # None

\* The Value is a 2-element array whose first element is an integer.
IsTagged(v) == v.t = "Bulk" /\ Len(v.v) = 2 /\ v.v[1].t = "Int"

\* The Scalar variant of a type tag from 1 to 9.
VariantOfTag(scalar_type) ==
    CASE scalar_type = 1 -> "Nil"
      [] scalar_type = 2 -> "String"
      [] scalar_type = 3 -> "Integer"
      [] scalar_type = 4 -> "Boolean"
      [] scalar_type = 5 -> "Double"
      [] scalar_type = 6 -> "Array"
      [] scalar_type = 7 -> "Edge"
      [] scalar_type = 8 -> "Node"
      [] scalar_type = 9 -> "Path"

\* C17: a decoded Scalar is of the variant that the type tag of the [tag,
\* payload] array selects (1 Nil, 2 String, 3 Integer, 4 Boolean, 5 Double,
\* 6 Array, 7 Edge, 8 Node, 9 Path); tag 0, a tag outside 0..9, a tag that is
\* no integer, an array of another length and a value that is no array give a
\* server type error.
C17_ScalarTypeTags ==
    ScalarDecoded =>
        IF IsTagged(wire) /\ wire.v[1].v \in 1..9
        THEN decoded.ok => decoded.val.s = VariantOfTag(wire.v[1].v)
        ELSE decoded = Err(ServerTypeError)

\* Tag 7 with an edge payload was decoded to an Edge scalar.
C17_Witness ==
    /\ ScalarDecoded
    /\ wire = ScalarCell(7, EdgeCell(0, <<>>))
    /\ decoded.ok
    /\ decoded.val = ScalarEdge(Edge(Ra, EmptyMap))

\* The payload has the shape that a string, integer, boolean or double tag
\* asks for.
PayloadMatches(scalar_type, payload) ==
    CASE scalar_type = 2 -> payload.t = "Data"
      [] scalar_type = 3 -> payload.t = "Int"
      [] scalar_type = 4 ->
           /\ payload.t = "Data"
           /\ payload.v \in {<<116, 114, 117, 101>>, <<102, 97, 108, 115, 101>>}
      [] scalar_type = 5 ->
           payload.t = "Data" /\ IsUtf8(payload.v) /\ ParseF64(payload.v).ok

\* A string, integer, boolean or double scalar whose payload does not match
\* its tag has been decoded.
PayloadMismatch ==
    /\ ScalarDecoded
    /\ IsTagged(wire)
    /\ wire.v[1].v \in 2..5
    /\ ~PayloadMatches(wire.v[1].v, wire.v[2])

\* C18 as stated: every payload that does not match its tag, the bytes of a
\* double that are no UTF-8 included, gives a server type error.
C18_MismatchIsServerTypeError == PayloadMismatch => decoded = Err(ServerTypeError)

\* The payload of a double is a byte string that is no UTF-8.
DoubleNotUtf8 == wire.v[1].v = 5 /\ wire.v[2].t = "Data" /\ ~IsUtf8(wire.v[2].v)

\* C18 as amended: a payload that does not match its tag gives a server type
\* error, except that the bytes of a double that are no UTF-8 give the
\* InvalidUtf8 error; a payload that matches decodes.
C18_MismatchErrors ==
    /\ PayloadMismatch =>
           decoded = IF DoubleNotUtf8 THEN Err(InvalidUtf8) ELSE Err(ServerTypeError)
    /\ (ScalarDecoded /\ IsTagged(wire) /\ wire.v[1].v \in 2..5
            /\ PayloadMatches(wire.v[1].v, wire.v[2])) => decoded.ok

\* A double whose payload is the byte 255 was decoded.
C18_Witness ==
    /\ PayloadMismatch
    /\ wire = ScalarCell(5, ValueData(<<255>>))
    /\ decoded = Err(InvalidUtf8)

(***************************************************************************)
(* The Node decoder (C19) and the columns of a ResultSet (C20).            *)
(***************************************************************************)
NodeDecoded == decoder = "Node" /\ decoded # None

\* The Value is a 3-element array whose second element is a list of integers.
IsNodeShape(v) == v.t = "Bulk" /\ Len(v.v) = 3 /\ IsIntList(v.v[2])

\* A property entry [key id, 3, integer] or [key id, 2, byte string].
IsProperty(e) ==
    /\ e.t = "Bulk"
    /\ Len(e.v) = 3
    /\ e.v[1].t = "Int"
    /\ e.v[2].t = "Int"
    /\ \/ e.v[2].v = 3 /\ e.v[3].t = "Int"
       \/ e.v[2].v = 2 /\ e.v[3].t = "Data"

AreProperties(v) == v.t = "Bulk" /\ \A k \in 1..Len(v.v) : IsProperty(v.v[k])

\* The Scalar a well-formed property entry carries.
PropertyValue(e) ==
    IF e.v[2].v = 3 THEN ScalarInteger(e.v[3].v) ELSE ScalarString(e.v[3].v)

\* The ids a list of integers or of property entries refers to.
IdsOf(ints) == [k \in 1..Len(ints) |-> ints[k].v]

KeyIdsOf(entries) == [k \in 1..Len(entries) |-> entries[k].v[1].v]

\* The labels that the ids select from the cache, in the order of the ids.
ResolvedLabels(ids, cache) == [k \in 1..Len(ids) |-> cache[ids[k] + 1]]

\* The properties by name: the value of the last entry whose key id selects
\* the name.
ResolvedProperties(entries, cache) ==
    [name \in {cache[entries[k].v[1].v + 1] : k \in 1..Len(entries)} |->
        LET named == {k \in 1..Len(entries) : cache[entries[k].v[1].v + 1] = name}
        IN  PropertyValue(entries[CHOOSE k \in named : \A j \in named : j <= k])]

\* C19: the node decoder resolves each label id by position in the label cache
\* and returns the labels in wire order; an id at or past the length of the
\* cache, or a negative id, gives LabelNotFound; the key id of each property
\* resolves through the property-key cache, with PropertyKeyNotFound on a miss.
C19_NodeDecoder ==
    (NodeDecoded /\ IsNodeShape(wire)) =>
        IF Misses(IdsOf(wire.v[2].v), labels) # {}
        THEN decoded = Err(LabelNotFound)
        ELSE IF ~AreProperties(wire.v[3])
        THEN ~decoded.ok
        ELSE IF Misses(KeyIdsOf(wire.v[3].v), property_keys) # {}
        THEN decoded = Err(PropertyKeyNotFound)
        ELSE decoded = Ok(Node(ResolvedLabels(IdsOf(wire.v[2].v), labels),
                               ResolvedProperties(wire.v[3].v, property_keys)))

\* The node [0, [1], [[0, 2, "x"]]] was decoded with the second label and the
\* first property key of the caches.
C19_Witness ==
    /\ NodeDecoded
    /\ wire = ValueBulk(<<ValueInt(0), ValueBulk(<<ValueInt(1)>>),
                          ValueBulk(<<ValueBulk(<<ValueInt(0), ValueInt(2),
                                                  ValueData(<<120>>)>>)>>)>>)
    /\ labels = <<La, Lb>>
    /\ property_keys = <<Ka, Kb>>
    /\ decoded.ok
    /\ decoded.val.labels = <<Lb>>
    /\ DOMAIN decoded.val.properties = {Ka}
    /\ decoded.val.properties[Ka] = ScalarString(<<120>>)

\* The header cell is an array whose first element is an integer.
IsHeaderCell(h) == h.t = "Bulk" /\ Len(h.v) >= 1 /\ h.v[1].t = "Int"

\* The Column variant of a column type from 1 to 3.
ColumnOfTag(column_type) ==
    CASE column_type = 1 -> "Scalars"
      [] column_type = 2 -> "Nodes"
      [] column_type = 3 -> "Relations"

\* C20: the ResultSet decoded from a 3-element envelope has one column per
\* header cell, in header order; the column type of header cell k (1 Scalars,
\* 2 Nodes, 3 Relations) selects the variant of column k, and cell r of column
\* k is decoded from position k of row r by the decoder of that variant; a
\* column type that is 0 or outside 0..3 gives a server type error.
C20_ColumnsFollowHeader ==
    (ResultSetDecoded /\ IsEnvelope3(wire) /\ wire.v[1].t = "Bulk") =>
        /\ decoded.ok =>
               /\ Len(decoded.val.columns) = Len(wire.v[1].v)
               /\ \A k \in 1..Len(wire.v[1].v) :
                      /\ IsHeaderCell(wire.v[1].v[k])
                      /\ wire.v[1].v[k].v[1].v \in 1..3
                      /\ decoded.val.columns[k].c = ColumnOfTag(wire.v[1].v[k].v[1].v)
                      /\ Len(decoded.val.columns[k].cells) = Len(wire.v[2].v)
                      /\ \A r \in 1..Len(wire.v[2].v) :
                             Ok(decoded.val.columns[k].cells[r]) =
                                 Cell_from_redis_value_with_graph(
                                     wire.v[1].v[k].v[1].v, wire.v[2].v[r].v[k], graph)
        /\ (/\ Len(wire.v[1].v) >= 1
            /\ IsHeaderCell(wire.v[1].v[1])
            /\ wire.v[1].v[1].v[1].v \notin 1..3
            /\ \A r \in 1..Len(wire.v[2].v) : wire.v[2].v[r].t = "Bulk")
               => decoded = Err(ServerTypeError)

\* The envelope [[[1]], [[[3, 42]]], [statistics]] was decoded to one Scalars
\* column with the single cell Integer(42).
C20_Witness ==
    /\ ResultSetDecoded
    /\ wire = Envelope(<<ValueBulk(<<ValueInt(1)>>)>>,
                       <<ValueBulk(<<ScalarCell(3, ValueInt(42))>>)>>)
    /\ decoded = Ok(ResultSet(<<Column("Scalars", <<ScalarInteger(42)>>)>>, <<Stat>>))

(***************************************************************************)
(* parse_statistics: C21.                                                  *)
(***************************************************************************)
StatisticsDecoded == decoder = "Statistics" /\ decoded # None

\* The positions of the entries that are no byte string or no UTF-8.
Offenders(entries) ==
    {k \in 1..Len(entries) : entries[k].t # "Data" \/ ~IsUtf8(entries[k].v)}

\* The first of them in wire order.
FirstOffender(entries) ==
    entries[CHOOSE k \in Offenders(entries) : \A j \in Offenders(entries) : k <= j]

\* What the statistics value of an envelope decodes to: the list of its entries
\* in wire order, or the error of the first entry that does not decode.
StatisticsContract(v) ==
    IF v.t # "Bulk" THEN Err(ServerTypeError)
    ELSE IF Offenders(v.v) = {} THEN Ok(StatisticsOf(v))
    ELSE IF FirstOffender(v.v).t = "Data" THEN Err(InvalidUtf8)
    ELSE Err(ServerTypeError)

\* C21: the statistics value decodes to the list of its entries as strings in
\* wire order; an entry that is a byte string but no UTF-8 makes the decode
\* fail with InvalidUtf8, an entry that is no byte string or a statistics value
\* that is no array makes it fail with a server type error (of two such
\* entries the first in wire order decides).  An envelope whose columns decode
\* carries these statistics, or fails with this error.
C21_StatisticsDecode ==
    /\ StatisticsDecoded => decoded = StatisticsContract(wire)
    /\ (ResultSetDecoded /\ wire.t = "Bulk" /\ Len(wire.v) = 1) =>
           decoded = AndThen(StatisticsContract(wire.v[1]),
                             LAMBDA stats : Ok(ResultSet(<<>>, stats)))
    /\ (ResultSetDecoded /\ IsEnvelope3(wire)) =>
           /\ decoded.ok =>
                  Ok(decoded.val.statistics) = StatisticsContract(wire.v[3])
           /\ (~decoded.ok /\ decoded.err = InvalidUtf8) =>
                  StatisticsContract(wire.v[3]) = Err(InvalidUtf8)

\* The list ["s", bytes that are no UTF-8, 1] failed with InvalidUtf8: the
\* first entry decoded, the second decided, the third was not looked at.
C21_Witness ==
    /\ StatisticsDecoded
    /\ wire = ValueBulk(<<ValueData(Stat), ValueData(BadUtf8), ValueInt(1)>>)
    /\ decoded = Err(InvalidUtf8)

(***************************************************************************)
(* Conversions of a Scalar cell into primitive and optional types: C22.    *)
(***************************************************************************)
\* The Scalar variant a primitive type asks for.
VariantOfPrimitive(target) ==
    CASE target = "bool" -> "Boolean"
      [] target = "i64" -> "Integer"
      [] target = "f64" -> "Double"
      [] target = "RedisString" -> "String"
      [] target = "unit" -> "Nil"

\* The Scalar is of the variant the target asks for, or is Nil for an
\* optional target.
VariantMatches(target, scalar) ==
    IF target \in OptionTargets
    THEN scalar.s = "Nil" \/ scalar.s = VariantOfPrimitive(Option_inner(target))
    ELSE scalar.s = VariantOfPrimitive(target)

\* The value the target takes from a Scalar whose variant matches.
ValueOfScalar(target, scalar) ==
    IF target \in OptionTargets
    THEN IF scalar.s = "Nil" THEN OptionNone ELSE OptionSome(scalar.v)
    ELSE IF target = "unit" THEN Unit ELSE scalar.v

\* A conversion of row 0 to primitive or optional types has returned, and the
\* number of columns is the number of types asked for.
PrimitivesProjected ==
    /\ projected # None
    /\ projection.shape \in {"primitives", "primitive"}
    /\ (projection.shape = "primitives" => Len(table.columns) = Len(projection.targets))

\* C22: the conversion of Scalar cells to requested primitive types fails with
\* a client type error whenever the variant of one of the Scalars does not
\* match its requested primitive; an optional target accepts Scalar::Nil and
\* yields the absent value, and yields the present value when the variant
\* matches.  When every variant matches, the conversion returns the values.
C22_ScalarConversion ==
    PrimitivesProjected =>
        LET n == Len(projection.targets)
            matches == \A k \in 1..n :
                           /\ table.columns[k].c = "Scalars"
                           /\ VariantMatches(projection.targets[k], table.columns[k].cells[1])
            value(k) == ValueOfScalar(projection.targets[k], table.columns[k].cells[1])
        IN  IF ~matches THEN projected = Err(ClientTypeError)
            ELSE /\ projected.ok
                 /\ IF projection.shape = "primitive"
                    THEN projected.val = value(1)
                    ELSE /\ Len(projected.val) = n
                         /\ \A k \in 1..n : projected.val[k] = value(k)

\* The row of RETURN 42, null was converted to (Option<i64>, Option<i64>) and
\* gave (Some(42), None).
C22_Witness ==
    /\ projected # None
    /\ projection.shape = "primitives"
    /\ projection.targets = <<"Option<i64>", "Option<i64>">>
    /\ Len(table.columns) = 2
    /\ table.columns[1].c = "Scalars"
    /\ table.columns[1].cells[1].s = "Integer"
    /\ table.columns[1].cells[1].v = 42
    /\ table.columns[2].c = "Scalars"
    /\ table.columns[2].cells[1].s = "Nil"
    /\ projected.ok
    /\ projected.val = <<OptionSome(42), OptionNone>>

(***************************************************************************)
(* The segments of the Path that try_from builds: C23.                     *)
(***************************************************************************)
\* The Path of a RawPath from its 1-based segment i on: Cons(nodes[i],
\* edges[i], rest) before the last segment, End(nodes[n], edges[n], nodes[n+1])
\* for the last.
RECURSIVE SegmentsFrom(_, _)
SegmentsFrom(path, i) ==
    IF i = Len(path.edges)
    THEN PathEnd(path.nodes[i], path.edges[i], path.nodes[i + 1])
    ELSE PathCons(path.nodes[i], path.edges[i], SegmentsFrom(path, i + 1))

\* C23: for a RawPath with n >= 1 edges and n + 1 nodes, the Path that try_from
\* returns has exactly n segments: the last is End(nodes[n-1], edges[n-1],
\* nodes[n]) and segment i before it is Cons(nodes[i], edges[i], rest), so no
\* node and no edge of the RawPath is dropped.
C23_PathKeepsEverySegment ==
    (path_result # None /\ ValidRawPath /\ path_result.ok) =>
        /\ Path_len(path_result.val) = Len(raw.edges)
        /\ path_result.val = SegmentsFrom(raw, 1)

(***************************************************************************)
(* The life of the identifier caches: C24.                                 *)
(***************************************************************************)
\* A step changes a cache only as the refresh that answers a miss of its kind.
CachesChangeOnOwnMiss ==
    /\ labels' # labels =>
           (pc = "update_labels" /\ attempt_result = Err(LabelNotFound))
    /\ relationship_types' # relationship_types =>
           (pc = "update_relationship_types"
                /\ attempt_result = Err(RelationshipTypeNotFound))
    /\ property_keys' # property_keys =>
           (pc = "update_property_keys" /\ attempt_result = Err(PropertyKeyNotFound))

\* C24: the three caches are empty when the session has been opened, and in
\* every sequence of calls a cache changes only in a refresh step that a miss
\* of its kind triggered: a call whose reply decodes without a miss leaves the
\* three caches as they were.
C24_CachesChangeOnlyOnOwnMiss ==
    /\ (labels = <<>> /\ relationship_types = <<>> /\ property_keys = <<>>)
    /\ [][CachesChangeOnOwnMiss]_vars

\* With labels cached by an earlier call, a call has returned a ResultSet
\* decoded without a miss, and the caches are still what they were.
C24_Witness ==
    /\ pc = "returned"
    /\ outcome # None
    /\ outcome.ok
    /\ refreshes = <<>>
    /\ labels = <<La, Lb>>
    /\ relationship_types = <<>>
    /\ property_keys = <<>>

(***************************************************************************)
(* A server whose lists hold every id its replies refer to: C25.           *)
(***************************************************************************)
\* A session whose caches hold any lists of names, left by earlier calls.
InitServed ==
    /\ pc = "idle"
    /\ reply = None
    /\ response = None
    /\ attempt_value = None
    /\ attempt_result = None
    /\ refreshes = <<>>
    /\ last_refresh = None
    /\ outcome = None
    /\ labels \in NameLists({La, Lb})
    /\ relationship_types \in NameLists({Ra, Rb})
    /\ property_keys \in NameLists({Ka, Kb})
    /\ PathIdle
    /\ ProjectionIdle
    /\ DecodeIdle

QueryServed == QueryOf("served")

\* The three update_* methods answered with a list that holds every id.
UpdateLabelsServed == UpdateLabelsOf("served")

UpdateRelationshipTypesServed == UpdateRelationshipTypesOf("served")

UpdatePropertyKeysServed == UpdatePropertyKeysOf("served")

NextServed ==
    \/ QueryServed
    \/ DecodeAttempt
    \/ UpdateLabelsServed
    \/ UpdateRelationshipTypesServed
    \/ UpdatePropertyKeysServed
    \/ Return

\* A call is one sequential computation: it goes on until it has returned.
SpecServed == InitServed /\ [][NextServed]_vars /\ WF_vars(NextServed)

\* get_result_set is at work on a reply that a server can send.
DecodingWellFormed == pc = "get_result_set" /\ WellFormedReply

\* C25: when every refresh returns a list that holds all the ids of its kind
\* that the reply refers to, get_result_set on a well-formed reply ends, from
\* any caches, with a decoded ResultSet, after at most three refreshes and at
\* most one of each kind, also when the reply misses in several kinds.
C25_FullRefreshesTerminate ==
    /\ []((reply # None /\ WellFormedReply)
              => \A kind \in CacheKinds : RefreshCount(kind) <= 1)
    /\ []((reply # None /\ WellFormedReply /\ pc \in {"returned", "aborted"})
              => (pc = "returned" /\ outcome.ok))
    /\ DecodingWellFormed ~> (pc = "returned" /\ outcome.ok /\ Len(refreshes) <= 3)

\* The reply that misses in the three kinds was decoded after three refreshes,
\* one of each kind.
C25_Witness ==
    /\ pc = "returned"
    /\ reply = ThreeKindsReply
    /\ outcome.ok
    /\ Len(refreshes) = 3
    /\ \A kind \in CacheKinds : RefreshCount(kind) = 1

(***************************************************************************)
(* A refresh that fails: C26.                                              *)
(***************************************************************************)
\* The latest refresh of the call failed: its request, or the decoding of its
\* response to a list of strings.
RefreshFailed == last_refresh # None /\ ~last_refresh.result.ok

\* C26: when a refresh fails (a transport error, or a response that does not
\* decode to a result set whose first column consists of string scalars, a
\* response with no columns included), the cache keeps its contents, the
\* failure is returned to the caller as an error, not an abort, and the
\* reply is not decoded again.
C26_FailedRefreshIsReturned ==
    RefreshFailed =>
        /\ CacheOf(graph, last_refresh.kind) = CacheOf(last_refresh.before, last_refresh.kind)
        /\ pc = "returned"
        /\ outcome = last_refresh.result
        /\ last_refresh.result.err # Panic
        /\ attempt_result = None

(***************************************************************************)
(* Path values converted to RawPath and back: C27.                         *)
(***************************************************************************)
\* C27: for every Path value, the RawPath made of it has as many edges as the
\* Path has segments, at least one, and one node more than edges (so that
\* Path::is_empty() is false), and converting that RawPath back to a Path
\* does not fail on the length checks of try_from.
C27_PathToRawPathLengths ==
    (raw_back # None /\ path_result # None /\ path_result.ok) =>
        /\ Len(raw_back.edges) = Path_len(path_result.val)
        /\ Len(raw_back.edges) >= 1
        /\ Len(raw_back.nodes) = Len(raw_back.edges) + 1
        /\ ~Path_is_empty(path_result.val)
        /\ path_back # None => (path_back.ok \/ path_back.err # ServerTypeError)

\* A Path of three segments was converted to a RawPath of three edges and
\* four nodes, and that RawPath was handed to try_from.
C27_Witness ==
    /\ raw = None
    /\ path_result # None
    /\ path_result.ok
    /\ Path_len(path_result.val) = 3
    /\ raw_back # None
    /\ Len(raw_back.edges) = 3
    /\ Len(raw_back.nodes) = 4
    /\ path_back # None
    /\ path_back.ok

====
